---- MODULE Spec2Model ----
(***************************************************************************)
(* PostPilot backend: admission control (TokenBucket, RateLimiter), the    *)
(* response cache (SQLiteCache, CacheManager) and the request handlers of  *)
(* server/app.  Wall-clock time (time.time()) is read on a grid of whole   *)
(* seconds; token balances and retry hints are exact rationals <<n, d>>.   *)
(***************************************************************************)
EXTENDS Integers, Sequences, FiniteSets, TLC

VARIABLES
    now,        \* the clock: what time.time() returns, in whole seconds
    bucket,     \* a TokenBucket used on its own
    bret,       \* what the last call on bucket returned
    scen,       \* calls on bucket that have followed the burst scenario, -1 once left
    t0,         \* clock reading at which bucket was constructed
    buckets,    \* RateLimiter.buckets: bucket key -> TokenBucket
    last_cleanup, \* RateLimiter.last_cleanup
    lret,       \* what the last RateLimiter.is_allowed call was given and returned
    streak,     \* per bucket key: unit-cost calls since the bucket was created,
                \* all at the creation time; -1 once that no longer holds
    rows,       \* what cache_manager.cache stores: the cache table of SQLiteCache,
                \* or the string keys of the Redis server; key -> row
    cret,       \* the last CacheManager call: its arguments, clock reading and result
    lastSetOf,  \* per cache key: the latest CacheManager.set of it that no delete
                \* or clear has followed
    kprev,      \* the generate_key call before the last one
    kcur,       \* the last generate_key call: arguments and returned key
    llm_client, \* the class of the process-wide llm_client
    received,   \* number of requests received so far
    inflight,   \* the handlers suspended in llm_client.generate, in order of arrival
    answered,   \* the handler that answered last: its calls and its response
    use_redis,  \* settings.use_redis
    fireworks_api_key, \* settings.fireworks_api_key, by its length (0: not set)
    redis_up,   \* whether the Redis server answers at present
    endpoint_up, \* whether the Fireworks endpoint answers at present
    probe,      \* what the Redis server answered when the process started
    rate_limiter, \* the class of the process-wide rate_limiter
    cache_impl, \* the class of cache_manager.cache
    zsets,      \* the sorted sets of the Redis server: key -> members and expiry
    gret,       \* the last llm_client.generate call made directly: how it ended
    tasks,      \* the handler coroutines of the event loop, in order of arrival,
                \* each with its position and its local variables
    rate_limit_window, \* settings.rate_limit_window, in seconds
    timed       \* the is_allowed calls a caller has timed, in order: what each
                \* was given, the clock reading and what it returned

bucketVars == <<bucket, bret, scen, t0>>
limiterVars == <<buckets, last_cleanup, lret, streak>>
cacheVars == <<rows, cret, lastSetOf>>
keyVars == <<kprev, kcur>>
handlerVars == <<llm_client, received, inflight, answered>>
deployVars == <<use_redis, fireworks_api_key, redis_up, endpoint_up, probe,
                rate_limiter, cache_impl, zsets, gret>>
vars == <<now, bucketVars, limiterVars, cacheVars, keyVars, handlerVars, deployVars,
          tasks, rate_limit_window, timed>>

(***************************************************************************)
(* Bounds of the model.                                                    *)
(***************************************************************************)
\* settings.rate_limit_requests as configured for the model (an overridable
\* setting, 60 by default).
RateLimitRequests == 2
\* settings.rate_limit_window as configured for the model (an overridable
\* setting): the default's ratio of seconds per request is kept whole.
RateLimitWindow == 2 * RateLimitRequests
\* Largest capacity a directly constructed TokenBucket is given.
MaxCapacity == RateLimitRequests
\* Largest number of tokens one call asks for.
MaxCost == 2
\* Seconds of clock read after each base point of TimePoints.
MaxTime == 2
\* settings.cache_ttl as configured for the model (an overridable setting,
\* 86400 by default): longer than the clock runs.
CacheTtl == MaxTime + 1
\* Requests the server receives in one run.
MaxRequests == 3

(***************************************************************************)
(* Constants of the program.                                               *)
(***************************************************************************)
\* RateLimiter.cleanup_interval
CleanupInterval == 300
\* age in seconds beyond which the sweep removes a bucket
IdleSeconds == 3600
\* TextNormalizer.min_length
MinLength == 10
\* the key length LLMClientFactory.create_client asks more than
MinKeyLength == 10

(***************************************************************************)
(* Exact arithmetic standing for the float arithmetic of the source.       *)
(***************************************************************************)
Abs(n) == IF n < 0 THEN -n ELSE n

RECURSIVE GCD(_, _)
GCD(a, b) == IF b = 0 THEN a ELSE GCD(b, a % b)

\* The rational n/d (d > 0) in lowest terms.
Rat(n, d) == LET g == GCD(Abs(n), d) IN <<n \div g, d \div g>>

RInt(n) == <<n, 1>>
RAdd(a, b) == Rat(a[1] * b[2] + b[1] * a[2], a[2] * b[2])
RSub(a, b) == Rat(a[1] * b[2] - b[1] * a[2], a[2] * b[2])
RMul(a, b) == Rat(a[1] * b[1], a[2] * b[2])
\* a / b for b > 0
RDiv(a, b) == Rat(a[1] * b[2], a[2] * b[1])
RLeq(a, b) == a[1] * b[2] <= b[1] * a[2]
RLess(a, b) == a[1] * b[2] < b[1] * a[2]
RMin(a, b) == IF RLeq(a, b) THEN a ELSE b

(***************************************************************************)
(* TokenBucket (services/ratelimit.py)                                     *)
(***************************************************************************)
\* TokenBucket.__init__ at clock reading t
TokenBucketInit(capacity, refill_rate, t) ==
    [capacity |-> capacity, refill_rate |-> refill_rate,
     tokens |-> RInt(capacity), last_refill |-> t]

\* The refill half of consume: lines 26-32.
Refill(b, t) ==
    LET time_elapsed == RInt(t - b.last_refill)
        tokens_to_add == RMul(time_elapsed, b.refill_rate)
    IN  [b EXCEPT !.tokens = RMin(RInt(b.capacity), RAdd(b.tokens, tokens_to_add)),
                  !.last_refill = t]

\* consume(tokens) at clock reading t: the bucket after the call and the
\* value returned.
ConsumeNoClamp(b, tokens, t) ==
    LET r == [b EXCEPT !.tokens = RAdd(b.tokens,
                           RMul(RInt(t - b.last_refill), b.refill_rate)),
                       !.last_refill = t]
    IN  IF RLeq(RInt(tokens), r.tokens)
        THEN [bucket |-> [r EXCEPT !.tokens = RSub(r.tokens, RInt(tokens))],
              result |-> TRUE]
        ELSE [bucket |-> r, result |-> FALSE]

ConsumeNoRefill(b, tokens, t) ==
    LET r == [b EXCEPT !.last_refill = t]
    IN  IF RLeq(RInt(tokens), r.tokens)
        THEN [bucket |-> [r EXCEPT !.tokens = RSub(r.tokens, RInt(tokens))],
              result |-> TRUE]
        ELSE [bucket |-> r, result |-> FALSE]

ConsumeDeniedUntouched(b, tokens, t) ==
    LET r == Refill(b, t)
    IN  IF RLeq(RInt(tokens), r.tokens)
        THEN [bucket |-> [r EXCEPT !.tokens = RSub(r.tokens, RInt(tokens))],
              result |-> TRUE]
        ELSE [bucket |-> b, result |-> FALSE]

Consume(b, tokens, t) ==
    LET r == Refill(b, t)
    IN  IF RLeq(RInt(tokens), r.tokens)
        THEN [bucket |-> [r EXCEPT !.tokens = RSub(r.tokens, RInt(tokens))],
              result |-> TRUE]
        ELSE [bucket |-> r, result |-> FALSE]

\* get_retry_after
GetRetryAfterFull(b) ==
    IF RLeq(RInt(1), b.tokens)
    THEN RInt(0)
    ELSE RDiv(RSub(RInt(b.capacity), b.tokens), b.refill_rate)

GetRetryAfterWholeToken(b) ==
    IF RLeq(RInt(1), b.tokens)
    THEN RInt(0)
    ELSE RDiv(RInt(1), b.refill_rate)

GetRetryAfter(b) ==
    IF RLeq(RInt(1), b.tokens)
    THEN RInt(0)
    ELSE LET tokens_needed == RSub(RInt(1), b.tokens)
         IN  RDiv(tokens_needed, b.refill_rate)

(***************************************************************************)
(* The clock                                                               *)
(***************************************************************************)
\* One second passes.
Tick ==
    /\ now % CleanupInterval < MaxTime
    /\ now' = now + 1
    /\ streak' = [k \in DOMAIN streak |-> -1]
    /\ UNCHANGED <<rate_limit_window, timed, tasks, bucketVars, buckets, last_cleanup, lret, cacheVars, keyVars, handlerVars,
                   deployVars>>

\* Clock readings the clock may jump to: late enough for a sweep to be due and
\* for every bucket used before the jump to have been idle for over an hour.
JumpPoints == {IdleSeconds + 2 * CleanupInterval}

\* A long time passes.
Jump ==
    /\ \E t \in JumpPoints : now < t /\ now' = t
    /\ streak' = [k \in DOMAIN streak |-> -1]
    /\ UNCHANGED <<rate_limit_window, timed, tasks, bucketVars, buckets, last_cleanup, lret, cacheVars, keyVars, handlerVars,
                   deployVars>>

\* Clock readings around the moments at which a sweep falls due and a
\* bucket used at the start has been idle for an hour
SweepPoints == {CleanupInterval - 1, CleanupInterval,
                2 * CleanupInterval - 1, 2 * CleanupInterval}
IdlePoints == {CleanupInterval, IdleSeconds}

\* Time passes up to the clock reading t.
SleepUntil(t) ==
    /\ now < t
    /\ now' = t
    /\ streak' = [k \in DOMAIN streak |-> -1]
    /\ UNCHANGED <<rate_limit_window, timed, tasks, bucketVars, buckets, last_cleanup, lret, cacheVars,
                   keyVars, handlerVars, deployVars>>

(***************************************************************************)
(* A TokenBucket used directly                                             *)
(***************************************************************************)
\* Refill rates given to a directly constructed bucket, tokens per second.
Rates == {<<1, 1>>, <<1, 2>>, <<2, 1>>, Rat(RateLimitRequests, RateLimitWindow)}

\* Position in the scenario "capacity+1 unit calls at construction time, then
\* two unit calls 1/refill_rate seconds later" after a consume(tokens) call.
ScenarioStep(s, b, tokens, t) ==
    IF s = -1 \/ tokens # 1 THEN -1
    ELSE IF s <= b.capacity /\ t = t0 THEN s + 1
    ELSE IF s \in {b.capacity + 1, b.capacity + 2}
            /\ RMul(RInt(t - t0), b.refill_rate) = RInt(1) THEN s + 1
    ELSE -1

\* TokenBucket(capacity, refill_rate)
BucketNew(capacity, refill_rate) ==
    /\ bucket' = TokenBucketInit(capacity, refill_rate, now)
    /\ bret' = [op |-> "init"]
    /\ scen' = 0
    /\ t0' = now
    /\ UNCHANGED <<rate_limit_window, timed, tasks, now, limiterVars, cacheVars, keyVars, handlerVars,
                   deployVars>>

\* bucket.consume(tokens)
BucketConsume(tokens) ==
    /\ bucket' = Consume(bucket, tokens, now).bucket
    /\ bret' = [op |-> "consume", tokens |-> tokens,
                ok |-> Consume(bucket, tokens, now).result,
                had |-> bucket.tokens, elapsed |-> now - bucket.last_refill]
    /\ scen' = ScenarioStep(scen, bucket, tokens, now)
    /\ UNCHANGED <<rate_limit_window, timed, tasks, now, t0, limiterVars, cacheVars, keyVars, handlerVars,
                   deployVars>>

\* bucket.get_retry_after()
BucketGetRetryAfter ==
    /\ bret' = [op |-> "get_retry_after", value |-> GetRetryAfter(bucket),
                at |-> now]
    /\ UNCHANGED <<rate_limit_window, timed, tasks, now, bucket, scen, t0, limiterVars, cacheVars, keyVars, handlerVars,
                   deployVars>>

(***************************************************************************)
(* RateLimiter (services/ratelimit.py)                                     *)
(***************************************************************************)
ClientIds == {"127.0.0.1", "c1"}
\* "" stands for endpoint=None: both are falsy in _get_bucket_key
Endpoints == {"summarize"}

\* _get_bucket_key
GetBucketKey(client_id, endpoint) ==
    IF endpoint # "" THEN client_id \o ":" \o endpoint ELSE client_id

\* The buckets _cleanup_old_buckets leaves at clock reading t, given that the
\* sweep is due.
SweptBucketsAtCutoff(bs, t) ==
    LET cutoff_time == t - IdleSeconds
        keys_to_remove == {k \in DOMAIN bs : bs[k].last_refill <= cutoff_time}
    IN  [k \in DOMAIN bs \ keys_to_remove |-> bs[k]]

SweptBuckets(bs, t) ==
    LET cutoff_time == t - IdleSeconds
        keys_to_remove == {k \in DOMAIN bs : bs[k].last_refill < cutoff_time}
    IN  [k \in DOMAIN bs \ keys_to_remove |-> bs[k]]

\* _cleanup_old_buckets: <<buckets, last_cleanup>> after the call, and
\* whether the sweep was executed
CleanupOldBucketsUnthrottled(bs, lc, t) ==
    <<SweptBuckets(bs, t), t, TRUE>>

CleanupOldBuckets(bs, lc, t) ==
    IF t - lc < CleanupInterval
    THEN <<bs, lc, FALSE>>
    ELSE <<SweptBuckets(bs, t), t, TRUE>>

\* The get-or-create step of is_allowed: lines 95-102.
WithBucketRatePerSecond(bs, bucket_key, t) ==
    IF bucket_key \notin DOMAIN bs
    THEN [k \in DOMAIN bs \cup {bucket_key} |->
            IF k = bucket_key
            THEN TokenBucketInit(RateLimitRequests, RInt(RateLimitRequests), t)
            ELSE bs[k]]
    ELSE bs

WithBucket(bs, bucket_key, t) ==
    IF bucket_key \notin DOMAIN bs
    THEN [k \in DOMAIN bs \cup {bucket_key} |->
            IF k = bucket_key
            THEN TokenBucketInit(RateLimitRequests,
                     Rat(RateLimitRequests, rate_limit_window), t)
            ELSE bs[k]]
    ELSE bs

\* is_allowed: [buckets, last_cleanup, allowed, retry_after] after the call,
\* and whether its sweep was executed
IsAllowed(bs, lc, client_id, endpoint, tokens, t) ==
    LET swept == CleanupOldBuckets(bs, lc, t)
        bucket_key == GetBucketKey(client_id, endpoint)
        withB == WithBucket(swept[1], bucket_key, t)
        b == withB[bucket_key]
        consumed == Consume(b, tokens, t)
    IN  [buckets |-> [withB EXCEPT ![bucket_key] = consumed.bucket],
         last_cleanup |-> swept[2],
         swept |-> swept[3],
         allowed |-> consumed.result,
         retry_after |-> IF consumed.result
                         THEN RInt(0)
                         ELSE GetRetryAfter(consumed.bucket)]

\* The streak of a key after a call with the given cost.
StreakStep(bs, lc, key, tokens, t) ==
    LET fresh == key \notin DOMAIN CleanupOldBuckets(bs, lc, t)[1]
        s == IF fresh THEN 0 ELSE IF key \in DOMAIN streak THEN streak[key] ELSE -1
    IN  IF s = -1 \/ tokens # 1 \/ s > RateLimitRequests THEN -1 ELSE s + 1

\* The clock readings of the sweeps executed so far, in order
SweepsSoFar == IF "sweeps" \in DOMAIN lret THEN lret.sweeps ELSE <<>>

\* The effect of rate_limiter.is_allowed(client_id, endpoint, tokens) on the
\* limiter.
IsAllowedStep(client_id, endpoint, tokens) ==
    LET r == IsAllowed(buckets, last_cleanup, client_id, endpoint, tokens, now)
        key == GetBucketKey(client_id, endpoint)
    IN  /\ buckets' = r.buckets
        /\ last_cleanup' = r.last_cleanup
        /\ lret' = [key |-> key, tokens |-> tokens, allowed |-> r.allowed,
                    retry_after |-> r.retry_after, swept |-> r.swept,
                    sweeps |-> IF r.swept THEN Append(SweepsSoFar, now)
                               ELSE SweepsSoFar,
                    removed |-> DOMAIN buckets \
                        DOMAIN CleanupOldBuckets(buckets, last_cleanup, now)[1]]
        /\ streak' = [k \in DOMAIN r.buckets |->
                        IF k = key
                        THEN StreakStep(buckets, last_cleanup, key, tokens, now)
                        ELSE IF k \in DOMAIN streak THEN streak[k] ELSE -1]

\* rate_limiter.is_allowed(client_id, endpoint, tokens), called directly
LimiterIsAllowed(client_id, endpoint, tokens) ==
    /\ IsAllowedStep(client_id, endpoint, tokens)
    /\ UNCHANGED <<rate_limit_window, timed, tasks, now, bucketVars, cacheVars, keyVars, handlerVars,
                   deployVars>>

(***************************************************************************)
(* RedisRateLimiter (services/ratelimit.py)                                *)
(***************************************************************************)
\* The key of the sorted set of a client and endpoint: line 154.
RedisKey(client_id, endpoint) ==
    "rate_limit:" \o client_id \o ":" \o (IF endpoint # "" THEN endpoint ELSE "global")

\* The sorted sets the server still holds at clock reading t: a key is gone
\* once the time to live EXPIRE gave it has passed.
ZLive(zs, t) == [k \in {j \in DOMAIN zs : zs[j].expire_at > t} |-> zs[k]]

\* The least element of a non-empty set of numbers
SetMin(S) == CHOOSE m \in S : \A n \in S : m <= n

\* Where a check can fail: pipe.execute(), which applies the four queued
\* commands together or not at all, and the later zrange.
RedisCheckFaults == {"execute", "zrange"}

\* RedisRateLimiter.is_allowed at clock reading t: the sorted sets after the
\* call and the pair returned.  A member of a sorted set is str(now) and its
\* score is now, so a set is modelled as the set of its scores.
RedisIsAllowedFailClosed(zs, client_id, endpoint, t, fault) ==
    LET key == RedisKey(client_id, endpoint)
        live == ZLive(zs, t)
        window_start == t - rate_limit_window
        before == IF key \in DOMAIN live THEN live[key].members ELSE {}
        kept == {m \in before : ~(0 <= m /\ m <= window_start)}
        current_requests == Cardinality(kept)
        after == kept \cup {t}
        zs2 == [k \in DOMAIN live \cup {key} |->
                   IF k = key
                   THEN [members |-> after, expire_at |-> t + rate_limit_window]
                   ELSE live[k]]
    IN  IF fault = "execute"
        THEN [zsets |-> zs, allowed |-> FALSE,
              retry_after |-> RInt(rate_limit_window), raised |-> FALSE]
        ELSE IF current_requests < RateLimitRequests
        THEN [zsets |-> zs2, allowed |-> TRUE, retry_after |-> RInt(0),
              raised |-> FALSE]
        ELSE [zsets |-> zs2, allowed |-> FALSE,
              retry_after |-> RInt(rate_limit_window), raised |-> FALSE]

RedisIsAllowedCountAfterInsert(zs, client_id, endpoint, t, fault) ==
    LET key == RedisKey(client_id, endpoint)
        live == ZLive(zs, t)
        window_start == t - rate_limit_window
        before == IF key \in DOMAIN live THEN live[key].members ELSE {}
        kept == {m \in before : ~(0 <= m /\ m <= window_start)}
        after == kept \cup {t}
        current_requests == Cardinality(after)
        zs2 == [k \in DOMAIN live \cup {key} |->
                   IF k = key
                   THEN [members |-> after, expire_at |-> t + rate_limit_window]
                   ELSE live[k]]
        oldest_request == SetMin(after)
        retry_after == oldest_request + rate_limit_window - t
    IN  IF fault = "execute"
        THEN [zsets |-> zs, allowed |-> TRUE, retry_after |-> RInt(0),
              raised |-> FALSE]
        ELSE IF current_requests < RateLimitRequests
        THEN [zsets |-> zs2, allowed |-> TRUE, retry_after |-> RInt(0),
              raised |-> FALSE]
        ELSE IF fault = "zrange"
        THEN [zsets |-> zs2, allowed |-> TRUE, retry_after |-> RInt(0),
              raised |-> FALSE]
        ELSE [zsets |-> zs2, allowed |-> FALSE,
              retry_after |-> RInt(IF retry_after > 0 THEN retry_after ELSE 0),
              raised |-> FALSE]

RedisIsAllowed(zs, client_id, endpoint, t, fault) ==
    LET key == RedisKey(client_id, endpoint)
        live == ZLive(zs, t)
        window_start == t - rate_limit_window
        before == IF key \in DOMAIN live THEN live[key].members ELSE {}
        \* zremrangebyscore(key, 0, window_start)
        kept == {m \in before : ~(0 <= m /\ m <= window_start)}
        \* zcard(key)
        current_requests == Cardinality(kept)
        \* zadd(key, {str(now): now})
        after == kept \cup {t}
        \* expire(key, settings.rate_limit_window)
        zs2 == [k \in DOMAIN live \cup {key} |->
                   IF k = key
                   THEN [members |-> after, expire_at |-> t + rate_limit_window]
                   ELSE live[k]]
        \* zrange(key, 0, 0, withscores=True): after the zadd it is never empty
        oldest_request == SetMin(after)
        retry_after == oldest_request + rate_limit_window - t
    IN  IF fault = "execute"
        THEN [zsets |-> zs, allowed |-> TRUE, retry_after |-> RInt(0),
              raised |-> FALSE]
        ELSE IF current_requests < RateLimitRequests
        THEN [zsets |-> zs2, allowed |-> TRUE, retry_after |-> RInt(0),
              raised |-> FALSE]
        ELSE IF fault = "zrange"
        THEN [zsets |-> zs2, allowed |-> TRUE, retry_after |-> RInt(0),
              raised |-> FALSE]
        ELSE [zsets |-> zs2, allowed |-> FALSE,
              retry_after |-> RInt(IF retry_after > 0 THEN retry_after ELSE 0),
              raised |-> FALSE]

\* The faults a check on the Redis server can meet at present
CheckFaultsNow == IF redis_up THEN RedisCheckFaults \cup {"none"} ELSE {"execute"}

\* The effect of a RedisRateLimiter.is_allowed(client_id, endpoint) call on
\* the server, and what the call was given, found and returned.
RedisIsAllowedStep(client_id, endpoint, fault) ==
    LET r == RedisIsAllowed(zsets, client_id, endpoint, now, fault)
        key == RedisKey(client_id, endpoint)
        live == ZLive(zsets, now)
    IN  /\ zsets' = r.zsets
        /\ lret' = [key |-> key, tokens |-> 1, allowed |-> r.allowed,
                    retry_after |-> r.retry_after, at |-> now, fault |-> fault,
                    raised |-> r.raised,
                    before |-> IF key \in DOMAIN live THEN live[key].members ELSE {}]

\* Clients and endpoints of the checks made on the Redis limiter directly;
\* "" stands for endpoint=None
RedisClientIds == {"c1"}
RedisEndpoints == {"summarize"}

\* rate_limiter.is_allowed(client_id, endpoint) of a RedisRateLimiter
RedisLimiterIsAllowed(client_id, endpoint, fault) ==
    /\ rate_limiter = "RedisRateLimiter"
    /\ RedisIsAllowedStep(client_id, endpoint, fault)
    /\ UNCHANGED <<rate_limit_window, timed, tasks, now, bucketVars, buckets, last_cleanup, streak, cacheVars,
                   keyVars, handlerVars, use_redis, fireworks_api_key, redis_up,
                   endpoint_up, probe, rate_limiter, cache_impl, gret>>

\* The last clock reading of a run that follows the sliding window
WindowHorizon == RateLimitWindow + MaxTime

\* Up to a whole window of time passes.
Wait(d) ==
    /\ now + d <= WindowHorizon
    /\ now' = now + d
    /\ streak' = [k \in DOMAIN streak |-> -1]
    /\ UNCHANGED <<rate_limit_window, timed, tasks, bucketVars, buckets, last_cleanup, lret, cacheVars, keyVars,
                   handlerVars, deployVars>>

\* The transaction pipe.execute() runs on the server at clock reading t of
\* the caller: zremrangebyscore, zcard, zadd, expire, applied together
\* (MULTI/EXEC); lines 159-174.
RedisPipeline(zs, key, t) ==
    LET live == ZLive(zs, t)
        window_start == t - rate_limit_window
        before == IF key \in DOMAIN live THEN live[key].members ELSE {}
        kept == {m \in before : ~(0 <= m /\ m <= window_start)}
        after == kept \cup {t}
    IN  [zsets |-> [k \in DOMAIN live \cup {key} |->
                       IF k = key
                       THEN [members |-> after, expire_at |-> t + rate_limit_window]
                       ELSE live[k]],
         current_requests |-> Cardinality(kept),
         added |-> Cardinality(after) - Cardinality(kept)]

\* The pair a denied check returns after its zrange, run at clock reading t
\* for a check that read the clock at checked_at: lines 180-185.
RedisDenied(zs, key, checked_at, t) ==
    LET live == ZLive(zs, t)
        oldest_request == IF key \in DOMAIN live THEN live[key].members ELSE {}
    IN  IF oldest_request # {}
        THEN LET retry_after == SetMin(oldest_request) + rate_limit_window - checked_at
             IN  RInt(IF retry_after > 0 THEN retry_after ELSE 0)
        ELSE RInt(rate_limit_window)

\* A process calls RedisRateLimiter.is_allowed(client_id, endpoint) and the
\* server runs the transaction of the check; an allowed check returns.
CheckExecutes(client_id, endpoint) ==
    LET key == RedisKey(client_id, endpoint)
        r == RedisPipeline(zsets, key, now)
        allowed == r.current_requests < RateLimitRequests
    IN  /\ rate_limiter = "RedisRateLimiter"
        /\ redis_up
        /\ Len(tasks) < MaxRequests
        /\ zsets' = r.zsets
        /\ tasks' = Append(tasks,
                        [key |-> key, at |-> now, added |-> r.added,
                         current_requests |-> r.current_requests,
                         allowed |-> allowed, retry_after |-> RInt(0),
                         pc |-> IF allowed THEN "done" ELSE "zrange"])
        /\ UNCHANGED <<rate_limit_window, timed, now, bucketVars, limiterVars, cacheVars, keyVars,
                       handlerVars, use_redis, fireworks_api_key, redis_up,
                       endpoint_up, probe, rate_limiter, cache_impl, gret>>

\* The server answers the zrange of the i-th check, which was denied, and the
\* check returns; checks of other processes may have run since its
\* transaction.
CheckZrange(i) ==
    /\ tasks[i].pc = "zrange"
    /\ redis_up
    /\ tasks' = [tasks EXCEPT
                    ![i].pc = "done",
                    ![i].retry_after = RedisDenied(zsets, tasks[i].key,
                                                   tasks[i].at, now)]
    /\ UNCHANGED <<rate_limit_window, timed, now, bucketVars, limiterVars, cacheVars, keyVars,
                   handlerVars, deployVars>>

(***************************************************************************)
(* Strings: a str is the sequence of its characters.                       *)
(***************************************************************************)
Whitespace == {" "}

\* str.lower() on one character
LowerChar(c) ==
    IF c = "A" THEN "a" ELSE IF c = "B" THEN "b" ELSE IF c = "C" THEN "c"
    ELSE IF c = "R" THEN "r" ELSE IF c = "S" THEN "s" ELSE IF c = "T" THEN "t"
    ELSE c

\* str.lower()
Lower(str) == [i \in 1..Len(str) |-> LowerChar(str[i])]

RECURSIVE LStrip(_)
LStrip(str) ==
    IF str # <<>> /\ Head(str) \in Whitespace THEN LStrip(Tail(str)) ELSE str

RECURSIVE RStrip(_)
RStrip(str) ==
    IF str # <<>> /\ str[Len(str)] \in Whitespace
    THEN RStrip(SubSeq(str, 1, Len(str) - 1))
    ELSE str

\* str.strip()
Strip(str) == RStrip(LStrip(str))

\* hashlib.sha256(s.encode()).hexdigest(), taken to be injective
Sha256Hex(str) == <<"sha256", str>>

\* sub in str
Contains(str, sub) ==
    \E i \in 1..(Len(str) - Len(sub) + 1) : SubSeq(str, i, i + Len(sub) - 1) = sub

\* str.find(sub, start) with positions counted from 1: the first position
\* >= start at which sub occurs in str, 0 (for -1) when there is none
Find(str, sub, start) ==
    LET at == {i \in start..(Len(str) - Len(sub) + 1) :
                  SubSeq(str, i, i + Len(sub) - 1) = sub}
    IN  IF at = {} THEN 0 ELSE CHOOSE i \in at : \A j \in at : i <= j

\* str[:n]
Take(str, n) == SubSeq(str, 1, IF Len(str) < n THEN Len(str) ELSE n)

\* the first 16 characters of a hexdigest
Prefix16(digest) == <<"[:16]", digest>>

(***************************************************************************)
(* SQLiteCache (services/cache.py)                                         *)
(***************************************************************************)
\* An optional value: None, or Some(x) for the value x.
None == <<>>
Some(x) == <<x>>

\* json.dumps of the record CacheManager.set stores
JsonDumps(d) ==
    <<"{", <<"result", <<"{", <<"text", d.result.text>>,
                              <<"success", d.result.success>>, "}">> >>,
           <<"cached_at", d.cached_at>>, <<"mode", d.mode>>,
           <<"persona", d.persona>>, <<"text_hash", d.text_hash>>, "}">>

\* json.loads of such a document
JsonLoads(doc) ==
    [result |-> [text |-> doc[2][2][2][2], success |-> doc[2][2][3][2]],
     cached_at |-> doc[3][2], mode |-> doc[4][2],
     persona |-> doc[5][2], text_hash |-> doc[6][2]]

\* SQLiteCache.get at clock reading t
SQLiteGetAnyRow(tbl, key, t) ==
    IF key \in DOMAIN tbl THEN Some(JsonLoads(tbl[key].value)) ELSE None

SQLiteGet(tbl, key, t) ==
    IF key \in DOMAIN tbl /\ tbl[key].expires_at > t
    THEN Some(JsonLoads(tbl[key].value))
    ELSE None

\* ttl or settings.cache_ttl
TtlOrDefault(ttl) == IF ttl = None \/ ttl = Some(0) THEN CacheTtl ELSE ttl[1]

\* SQLiteCache.set at clock reading t: the table after INSERT OR REPLACE
SQLiteSetLongLived(tbl, key, value, ttl, t) ==
    [k \in DOMAIN tbl \cup {key} |->
        IF k = key
        THEN [value |-> JsonDumps(value), created_at |-> t,
              expires_at |-> t + CacheTtl + TtlOrDefault(ttl)]
        ELSE tbl[k]]

SQLiteSet(tbl, key, value, ttl, t) ==
    LET expires_at == t + TtlOrDefault(ttl)
    IN  [k \in DOMAIN tbl \cup {key} |->
            IF k = key
            THEN [value |-> JsonDumps(value), created_at |-> t,
                  expires_at |-> expires_at]
            ELSE tbl[k]]

\* SQLiteCache.delete
SQLiteDelete(tbl, key) == [k \in DOMAIN tbl \ {key} |-> tbl[k]]

\* SQLiteCache.clear
SQLiteClear(tbl) == <<>>

\* SQLiteCache.cleanup_expired at clock reading t: the rows deleted
ExpiredKeysStrictly(tbl, t) == {k \in DOMAIN tbl : tbl[k].expires_at < t}

ExpiredKeys(tbl, t) == {k \in DOMAIN tbl : tbl[k].expires_at <= t}

SQLiteCleanupExpired(tbl, t) == [k \in DOMAIN tbl \ ExpiredKeys(tbl, t) |-> tbl[k]]

(***************************************************************************)
(* CacheManager (services/cache.py)                                        *)
(***************************************************************************)
cache_version == <<"v", "2">>

\* generate_key
GenerateKeyNoLower(text, mode, persona) ==
    LET normalized_text == Strip(text)
        content_hash == Sha256Hex(normalized_text \o <<":">> \o mode \o <<":">>
                                  \o persona \o <<":">> \o cache_version)
    IN  <<"postpilot:", content_hash>>

\* generate_key of a build whose line 248 assigns version to cache_version
GenerateKeyUnderNoVersion(text, mode, persona, version) ==
    LET normalized_text == Lower(Strip(text))
        content_hash == Sha256Hex(normalized_text \o <<":">> \o mode \o <<":">>
                                  \o persona)
    IN  <<"postpilot:", content_hash>>

GenerateKeyUnder(text, mode, persona, version) ==
    LET normalized_text == Lower(Strip(text))
        content_hash == Sha256Hex(normalized_text \o <<":">> \o mode \o <<":">>
                                  \o persona \o <<":">> \o version)
    IN  <<"postpilot:", content_hash>>

GenerateKey(text, mode, persona) ==
    GenerateKeyUnder(text, mode, persona, cache_version)

\* the record CacheManager.set hands to the backend
CacheData(text, mode, persona, result, t) ==
    [result |-> result, cached_at |-> t, mode |-> mode, persona |-> persona,
     text_hash |-> Prefix16(Sha256Hex(text))]

Summarize == <<"s", "u", "m", "m", "a", "r", "i", "z", "e">>
Context == <<"c", "o", "n", "t", "e", "x", "t">>
Human == <<"h", "u", "m", "a", "n">>
Curator == <<"c", "u", "r", "a", "t", "o", "r">>

\* Arguments of the CacheManager calls
CacheTexts == {<<"A", " ">>, <<"a">>, <<"b">>}
CacheModes == {Summarize}
CachePersonas == {Human}
Results == {[text |-> "r1", success |-> TRUE], [text |-> "r2", success |-> TRUE]}
TtlArgs == {None, Some(0), Some(1)}

NoCall == [op |-> "none"]

\* cache_manager.get(text, mode, persona)
ManagerGet(text, mode, persona) ==
    LET key == GenerateKey(text, mode, persona)
    IN  /\ cret' = [op |-> "get", key |-> key, at |-> now,
                    value |-> SQLiteGet(rows, key, now)]
        /\ UNCHANGED <<rate_limit_window, timed, tasks, now, rows, lastSetOf, bucketVars, limiterVars, keyVars, handlerVars,
                   deployVars>>

\* cache_manager.set(text, mode, persona, result, ttl)
ManagerSet(text, mode, persona, result, ttl) ==
    LET key == GenerateKey(text, mode, persona)
        cache_data == CacheData(text, mode, persona, result, now)
    IN  /\ rows' = SQLiteSet(rows, key, cache_data, ttl, now)
        /\ cret' = [op |-> "set", key |-> key, at |-> now, value |-> TRUE]
        /\ lastSetOf' = [k \in DOMAIN lastSetOf \cup {key} |->
                            IF k = key
                            THEN [at |-> now, ttl |-> ttl, result |-> result]
                            ELSE lastSetOf[k]]
        /\ UNCHANGED <<rate_limit_window, timed, tasks, now, bucketVars, limiterVars, keyVars, handlerVars,
                   deployVars>>

\* cache_manager.delete(text, mode, persona)
ManagerDelete(text, mode, persona) ==
    LET key == GenerateKey(text, mode, persona)
    IN  /\ rows' = SQLiteDelete(rows, key)
        /\ cret' = [op |-> "delete", key |-> key, at |-> now, value |-> TRUE]
        /\ lastSetOf' = [k \in DOMAIN lastSetOf \ {key} |-> lastSetOf[k]]
        /\ UNCHANGED <<rate_limit_window, timed, tasks, now, bucketVars, limiterVars, keyVars, handlerVars,
                   deployVars>>

\* cache_manager.clear()
ManagerClear ==
    /\ rows' = SQLiteClear(rows)
    /\ cret' = [op |-> "clear", at |-> now, value |-> TRUE]
    /\ lastSetOf' = <<>>
    /\ UNCHANGED <<rate_limit_window, timed, tasks, now, bucketVars, limiterVars, keyVars, handlerVars,
                   deployVars>>

\* cache_manager.cleanup_expired()
ManagerCleanupExpired ==
    /\ rows' = SQLiteCleanupExpired(rows, now)
    /\ cret' = [op |-> "cleanup_expired", at |-> now,
                value |-> Cardinality(ExpiredKeys(rows, now))]
    /\ UNCHANGED <<rate_limit_window, timed, tasks, now, lastSetOf, bucketVars, limiterVars, keyVars, handlerVars,
                   deployVars>>

(***************************************************************************)
(* The cache backends when the store fails (services/cache.py)             *)
(***************************************************************************)
\* Where a call on the SQLite file can fail: sqlite3.connect, cursor.execute,
\* conn.commit.  Nothing is written before the commit has succeeded.
SQLiteFaults == {"connect", "execute", "commit"}
\* Where a call on the Redis server can fail: the one command it sends
\* (the server is down, the connection breaks, the command is refused).
RedisFaults == {"command"}

\* A cache backend call: the store after it, the value returned, and whether
\* an exception left the call.
Returned(tbl, v) == [rows |-> tbl, value |-> v, raised |-> FALSE]

\* SQLiteCache.get .. cleanup_expired with their except clauses; fault is
\* "none" or the place of the failure.
SQLiteGetTry(tbl, key, t, fault) ==
    IF fault # "none" THEN Returned(tbl, None) ELSE Returned(tbl, SQLiteGet(tbl, key, t))

SQLiteSetTryAutocommit(tbl, key, value, ttl, t, fault) ==
    IF fault \in {"connect", "execute"} THEN Returned(tbl, FALSE)
    ELSE IF fault = "commit" THEN Returned(SQLiteSet(tbl, key, value, ttl, t), FALSE)
    ELSE Returned(SQLiteSet(tbl, key, value, ttl, t), TRUE)

SQLiteSetTry(tbl, key, value, ttl, t, fault) ==
    IF fault # "none" THEN Returned(tbl, FALSE)
    ELSE Returned(SQLiteSet(tbl, key, value, ttl, t), TRUE)

SQLiteDeleteTry(tbl, key, fault) ==
    IF fault # "none" THEN Returned(tbl, FALSE)
    ELSE Returned(SQLiteDelete(tbl, key), TRUE)

SQLiteClearTry(tbl, fault) ==
    IF fault # "none" THEN Returned(tbl, FALSE)
    ELSE Returned(SQLiteClear(tbl), TRUE)

SQLiteCleanupExpiredTry(tbl, t, fault) ==
    IF fault # "none" THEN Returned(tbl, 0)
    ELSE Returned(SQLiteCleanupExpired(tbl, t), Cardinality(ExpiredKeys(tbl, t)))

\* The string keys the Redis server still holds at clock reading t: a key
\* set with SETEX is gone once its time to live has passed.
RedisLive(tbl, t) == [k \in {j \in DOMAIN tbl : tbl[j].expires_at > t} |-> tbl[k]]

\* RedisCache.get .. clear with their except clauses
RedisGetTry(tbl, key, t, fault) ==
    IF fault # "none" THEN Returned(tbl, None)
    ELSE LET live == RedisLive(tbl, t)
         IN  Returned(live, IF key \in DOMAIN live
                            THEN Some(JsonLoads(live[key].value))
                            ELSE None)

RedisSetTry(tbl, key, value, ttl, t, fault) ==
    IF fault # "none" THEN Returned(tbl, FALSE)
    ELSE LET live == RedisLive(tbl, t)
         IN  Returned([k \in DOMAIN live \cup {key} |->
                          IF k = key
                          THEN [value |-> JsonDumps(value),
                                expires_at |-> t + TtlOrDefault(ttl)]
                          ELSE live[k]], TRUE)

RedisDeleteTry(tbl, key, t, fault) ==
    IF fault # "none" THEN Returned(tbl, FALSE)
    ELSE LET live == RedisLive(tbl, t)
         IN  Returned([k \in DOMAIN live \ {key} |-> live[k]], TRUE)

\* FLUSHDB empties the database
RedisClearTry(tbl, fault) ==
    IF fault # "none" THEN Returned(tbl, FALSE) ELSE Returned(<<>>, TRUE)

\* The faults a call on cache_manager.cache can meet at present
FaultsNow ==
    IF cache_impl = "SQLiteCache" THEN SQLiteFaults \cup {"none"}
    ELSE IF redis_up THEN RedisFaults \cup {"none"}
    ELSE RedisFaults

\* Arguments of the cache calls made while the store may fail
FaultTexts == {<<"a">>, <<"b">>}
FaultTtlArgs == {None, Some(1)}
FaultResults == {[text |-> "r1", success |-> TRUE]}

\* The Redis server goes down or comes back.
StoreDown ==
    /\ redis_up
    /\ redis_up' = FALSE
    /\ UNCHANGED <<rate_limit_window, timed, tasks, now, bucketVars, limiterVars, cacheVars, keyVars, handlerVars,
                   use_redis, fireworks_api_key, endpoint_up, probe,
                   rate_limiter, cache_impl, zsets, gret>>

StoreUp ==
    /\ ~redis_up
    /\ use_redis
    /\ redis_up' = TRUE
    /\ UNCHANGED <<rate_limit_window, timed, tasks, now, bucketVars, limiterVars, cacheVars, keyVars, handlerVars,
                   use_redis, fireworks_api_key, endpoint_up, probe,
                   rate_limiter, cache_impl, zsets, gret>>

\* The effect of a cache_manager call that ran as out tells
CacheCallDone(op, key, fault, out) ==
    /\ rows' = out.rows
    /\ cret' = [op |-> op, key |-> key, at |-> now, value |-> out.value,
                fault |-> fault, raised |-> out.raised]
    /\ zsets' = IF op = "clear" /\ cache_impl = "RedisCache" /\ fault = "none"
                THEN <<>> ELSE zsets
    /\ UNCHANGED <<rate_limit_window, timed, tasks, now, lastSetOf, bucketVars, limiterVars, keyVars, handlerVars,
                   use_redis, fireworks_api_key, redis_up, endpoint_up, probe,
                   rate_limiter, cache_impl, gret>>

\* cache_manager.get(text, mode, persona) over either backend
CacheGet(text, mode, persona, fault) ==
    LET key == GenerateKey(text, mode, persona)
    IN  CacheCallDone("get", key, fault,
            IF cache_impl = "SQLiteCache"
            THEN SQLiteGetTry(rows, key, now, fault)
            ELSE RedisGetTry(rows, key, now, fault))

\* cache_manager.set(text, mode, persona, result, ttl) over either backend
CacheSetReprobing(text, mode, persona, result, ttl, fault) ==
    LET key == GenerateKey(text, mode, persona)
        cache_data == CacheData(text, mode, persona, result, now)
    IN  CacheCallDone("set", key, fault,
            IF cache_impl = "SQLiteCache" /\ ~(use_redis /\ redis_up)
            THEN SQLiteSetTry(rows, key, cache_data, ttl, now, fault)
            ELSE RedisSetTry(rows, key, cache_data, ttl, now, fault))

CacheSet(text, mode, persona, result, ttl, fault) ==
    LET key == GenerateKey(text, mode, persona)
        cache_data == CacheData(text, mode, persona, result, now)
    IN  CacheCallDone("set", key, fault,
            IF cache_impl = "SQLiteCache"
            THEN SQLiteSetTry(rows, key, cache_data, ttl, now, fault)
            ELSE RedisSetTry(rows, key, cache_data, ttl, now, fault))

\* cache_manager.delete(text, mode, persona) over either backend
CacheDelete(text, mode, persona, fault) ==
    LET key == GenerateKey(text, mode, persona)
    IN  CacheCallDone("delete", key, fault,
            IF cache_impl = "SQLiteCache"
            THEN SQLiteDeleteTry(rows, key, fault)
            ELSE RedisDeleteTry(rows, key, now, fault))

\* cache_manager.clear() over either backend
CacheClear(fault) ==
    CacheCallDone("clear", <<>>, fault,
        IF cache_impl = "SQLiteCache"
        THEN SQLiteClearTry(rows, fault)
        ELSE RedisClearTry(rows, fault))

\* cache_manager.cleanup_expired(): RedisCache has no cleanup_expired, and
\* the manager then returns 0 without a call on the store
CacheCleanupExpired(fault) ==
    CacheCallDone("cleanup_expired", <<>>, fault,
        IF cache_impl = "SQLiteCache"
        THEN SQLiteCleanupExpiredTry(rows, now, fault)
        ELSE Returned(rows, 0))

\* Arguments of direct generate_key calls
KeyTexts == {<<>>, <<" ">>, <<"a">>, <<"A">>, <<" ", "A">>, <<"a", " ">>,
             <<"a", "A">>, <<"A", " ", "a">>, <<"b">>}
KeyModes == {Summarize, Context}
KeyPersonas == {Human, Curator}

\* cache_manager.generate_key(text, mode, persona)
GenerateKeyCall(text, mode, persona) ==
    /\ kprev' = kcur
    /\ kcur' = [op |-> "generate_key", text |-> text, mode |-> mode,
                persona |-> persona, version |-> cache_version, at |-> now,
                key |-> GenerateKey(text, mode, persona)]
    /\ UNCHANGED <<rate_limit_window, timed, tasks, now, bucketVars, limiterVars, cacheVars, handlerVars,
                   deployVars>>

\* Versions a later build assigns to cache_version
LaterVersions == {<<"v", "3">>}

\* Arguments of generate_key calls compared across modes, personas and
\* versions: texts and personas with and without the separator ":"
SepTexts == {<<"a">>, <<"a", ":", "v", "3">>, <<"A", " ">>}
SepPersonas == {Human, Curator, Human \o <<":", "v", "3">>}

\* generate_key(text, mode, persona) of a build with a later cache_version
GenerateKeyCallUnder(version, text, mode, persona) ==
    /\ kprev' = kcur
    /\ kcur' = [op |-> "generate_key", text |-> text, mode |-> mode,
                persona |-> persona, version |-> version, at |-> now,
                key |-> GenerateKeyUnder(text, mode, persona, version)]
    /\ UNCHANGED <<rate_limit_window, timed, tasks, now, bucketVars, limiterVars, cacheVars, handlerVars,
                   deployVars>>

(***************************************************************************)
(* The generation client (services/llm_client.py)                          *)
(***************************************************************************)
\* Lengths of settings.fireworks_api_key; 0 stands for no key.
ApiKeyLens == {0, MinKeyLength, MinKeyLength + 1}

\* DobbyClient.is_available
DobbyIsAvailable(api_key_len) == api_key_len > 0 /\ api_key_len > MinKeyLength

\* LLMClientFactory.create_client
CreateClientAtLeastMin(api_key_len) ==
    IF api_key_len > 0 /\ api_key_len >= MinKeyLength
    THEN "DobbyClient"
    ELSE "LocalMockClient"

CreateClient(api_key_len) ==
    IF api_key_len > 0 /\ api_key_len > MinKeyLength /\ DobbyIsAvailable(api_key_len)
    THEN "DobbyClient"
    ELSE "LocalMockClient"

\* How the one request of DobbyClient.generate can end: a 200 answer, another
\* status, no answer within the 30 s of ClientTimeout, any other error.
DobbyOutcomes == {"200", "status", "timeout", "error"}

\* DobbyClient.generate: the requests it posted, the dict it returned or None
\* when it raised, and whether its session is still open when it is left.
\* Both async with blocks are left on every path, which closes the response
\* and the session.
DobbyGenerateRetrying(key_len, outcome) ==
    IF ~DobbyIsAvailable(key_len)
    THEN [posts |-> 0, outcome |-> "not configured", raised |-> TRUE,
          result |-> None, session_open |-> FALSE]
    ELSE IF outcome = "200"
    THEN [posts |-> 1, outcome |-> outcome, raised |-> FALSE,
          result |-> Some([text |-> "generated", success |-> TRUE]),
          session_open |-> FALSE]
    ELSE [posts |-> 2, outcome |-> outcome, raised |-> TRUE,
          result |-> None, session_open |-> FALSE]

DobbyGenerateFailureResult(key_len, outcome) ==
    IF ~DobbyIsAvailable(key_len)
    THEN [posts |-> 0, outcome |-> "not configured", raised |-> TRUE,
          result |-> None, session_open |-> FALSE]
    ELSE IF outcome = "200"
    THEN [posts |-> 1, outcome |-> outcome, raised |-> FALSE,
          result |-> Some([text |-> "generated", success |-> TRUE]),
          session_open |-> FALSE]
    ELSE [posts |-> 1, outcome |-> outcome, raised |-> FALSE,
          result |-> Some([text |-> "", success |-> FALSE]),
          session_open |-> FALSE]

DobbyGenerate(key_len, outcome) ==
    IF ~DobbyIsAvailable(key_len)
    THEN [posts |-> 0, outcome |-> "not configured", raised |-> TRUE,
          result |-> None, session_open |-> FALSE]
    ELSE IF outcome = "200"
    THEN [posts |-> 1, outcome |-> outcome, raised |-> FALSE,
          result |-> Some([text |-> "generated", success |-> TRUE]),
          session_open |-> FALSE]
    ELSE [posts |-> 1, outcome |-> outcome, raised |-> TRUE,
          result |-> None, session_open |-> FALSE]

\* LocalMockClient.generate
MockGenerate ==
    [posts |-> 0, outcome |-> "mock", raised |-> FALSE,
     result |-> Some([text |-> "mock", success |-> TRUE]),
     session_open |-> FALSE]

\* LocalMockClient.is_available
MockIsAvailable == TRUE

TweetMark == <<"T", "w", "e", "e", "t", ":">>
Reply == <<"r", "e", "p", "l", "y">>
SampleTweetContent == <<"Sample tweet content">>

\* The tweet LocalMockClient.generate reads out of its prompt: lines 136-144.
\* Whitespace here is " " and the line feed.
TweetContent(prompt) ==
    IF Contains(prompt, TweetMark)
    THEN LET tweet_start == Find(prompt, TweetMark, 1) + 6
             found == Find(prompt, <<"\n">>, tweet_start)
             tweet_end == IF found = 0 THEN Len(prompt) + 1 ELSE found
             line == SubSeq(prompt, tweet_start, tweet_end - 1)
             IsSpace(c) == c \in Whitespace \cup {"\n"}
             first == {i \in 1..Len(line) : ~IsSpace(line[i])}
         IN  IF first = {} THEN <<>>
             ELSE SubSeq(line, CHOOSE i \in first : \A j \in first : i <= j,
                               CHOOSE i \in first : \A j \in first : j <= i)
    ELSE SampleTweetContent

\* asyncio.sleep(0.1 + (temperature * 0.2)): the delay asked for; a delay
\* <= 0 yields to the loop once and returns
MockDelay(temperature) == RAdd(Rat(1, 10), RMul(temperature, Rat(2, 10)))

\* The dict LocalMockClient.generate returns for a call that read the clock
\* at start_time when it began and at t after its sleep: lines 146-164
LocalMockResultUnrecognizedFails(prompt, temperature, max_tokens, start_time, t) ==
    LET tweet_content == TweetContent(prompt)
        lowered == Lower(prompt)
        branch == IF Contains(lowered, Summarize) THEN "Summary of the tweet: "
                  ELSE IF Contains(lowered, Context) THEN "Context for the tweet: "
                  ELSE IF Contains(lowered, Reply) THEN "1. Great point about "
                  ELSE "Response to: "
    IN  [text |-> <<branch, Take(tweet_content,
                                 IF branch = "1. Great point about " THEN 50 ELSE 100)>>,
         model |-> "mock-local", provider |-> "local",
         processing_time |-> t - start_time,
         success |-> branch # "Response to: "]

LocalMockResult(prompt, temperature, max_tokens, start_time, t) ==
    LET tweet_content == TweetContent(prompt)
        lowered == Lower(prompt)
        branch == IF Contains(lowered, Summarize) THEN "Summary of the tweet: "
                  ELSE IF Contains(lowered, Context) THEN "Context for the tweet: "
                  ELSE IF Contains(lowered, Reply) THEN "1. Great point about "
                  ELSE "Response to: "
    IN  [text |-> <<branch, Take(tweet_content,
                                 IF branch = "1. Great point about " THEN 50 ELSE 100)>>,
         model |-> "mock-local", provider |-> "local",
         processing_time |-> t - start_time,
         success |-> TRUE]

\* Arguments of the generate calls made on the mock client directly: prompts
\* with and without the "Tweet:" line and each of the keywords, in either
\* case; temperatures below, at and above 0; two max_tokens values
MockPrompts ==
    {<<>>,
     <<"a">>,
     TweetMark,
     TweetMark \o <<" ", "a", " ">>,
     TweetMark \o <<" ", "a", "\n">> \o Summarize,
     <<"S">> \o Tail(Summarize) \o <<" ">> \o TweetMark \o <<"b">>,
     Context \o <<"\n">> \o TweetMark \o <<"\n">>,
     <<"R">> \o Tail(Reply)}
MockTemperatures == {<<-1, 1>>, <<0, 1>>, <<7, 10>>, <<2, 1>>}
MockMaxTokens == {0, 500}

\* await llm_client.generate(prompt, temperature, max_tokens) of the mock
\* client, up to its suspension in asyncio.sleep: lines 131-134
MockGenerateCall(prompt, temperature, max_tokens) ==
    /\ llm_client = "LocalMockClient"
    /\ gret.op # "sleeping"
    /\ now % CleanupInterval < MaxTime
    /\ gret' = [op |-> "sleeping", prompt |-> prompt, temperature |-> temperature,
                max_tokens |-> max_tokens, start_time |-> now,
                wake_at |-> RAdd(RInt(now), MockDelay(temperature)),
                raised |-> FALSE, result |-> None]
    /\ UNCHANGED <<rate_limit_window, timed, tasks, now, bucketVars, limiterVars, cacheVars, keyVars, handlerVars,
                   use_redis, fireworks_api_key, redis_up, endpoint_up, probe,
                   rate_limiter, cache_impl, zsets>>

\* The sleep of the suspended generate call is over and the call returns:
\* lines 136-164
MockGenerateReturns ==
    /\ gret.op = "sleeping"
    /\ RLeq(MockDelay(gret.temperature), RInt(0)) \/ RLeq(gret.wake_at, RInt(now))
    /\ gret' = [gret EXCEPT
                   !.op = "generate",
                   !.result = Some(LocalMockResult(gret.prompt, gret.temperature,
                                       gret.max_tokens, gret.start_time, now))]
    /\ UNCHANGED <<rate_limit_window, timed, tasks, now, bucketVars, limiterVars, cacheVars, keyVars, handlerVars,
                   use_redis, fireworks_api_key, redis_up, endpoint_up, probe,
                   rate_limiter, cache_impl, zsets>>

\* llm_client.generate of the client class cls
Generate(cls, key_len, outcome) ==
    IF cls = "DobbyClient" THEN DobbyGenerate(key_len, outcome) ELSE MockGenerate

\* How a generate call of the process-wide client can end at present
OutcomesNow ==
    IF llm_client = "LocalMockClient" THEN {"mock"}
    ELSE IF endpoint_up THEN DobbyOutcomes
    ELSE {"timeout", "error"}

\* llm_client.generate(prompt) called directly
ClientGenerate(outcome) ==
    /\ gret' = [op |-> "generate"] @@ Generate(llm_client, fireworks_api_key, outcome)
    /\ UNCHANGED <<rate_limit_window, timed, tasks, now, bucketVars, limiterVars, cacheVars, keyVars, handlerVars,
                   use_redis, fireworks_api_key, redis_up, endpoint_up, probe,
                   rate_limiter, cache_impl, zsets>>

\* The faults a check of the process-wide rate_limiter can meet at present
LimiterFaultsNow ==
    IF rate_limiter = "RedisRateLimiter" THEN CheckFaultsNow ELSE {"none"}

\* The effect of rate_limiter.is_allowed(client_id, endpoint) on whichever
\* limiter create_rate_limiter returned
DeployedIsAllowedStepReprobing(client_id, endpoint, fault) ==
    IF rate_limiter = "RedisRateLimiter" \/ (use_redis /\ redis_up)
    THEN /\ RedisIsAllowedStep(client_id, endpoint, fault)
         /\ UNCHANGED <<buckets, last_cleanup, streak>>
    ELSE /\ IsAllowedStep(client_id, endpoint, 1)
         /\ UNCHANGED zsets

DeployedIsAllowedStep(client_id, endpoint, fault) ==
    IF rate_limiter = "RedisRateLimiter"
    THEN /\ RedisIsAllowedStep(client_id, endpoint, fault)
         /\ UNCHANGED <<buckets, last_cleanup, streak>>
    ELSE /\ IsAllowedStep(client_id, endpoint, 1)
         /\ UNCHANGED zsets

\* rate_limiter.is_allowed(client_id, endpoint) called directly
DeployedIsAllowed(client_id, endpoint, fault) ==
    /\ DeployedIsAllowedStep(client_id, endpoint, fault)
    /\ UNCHANGED <<rate_limit_window, timed, tasks, now, bucketVars, cacheVars, keyVars, handlerVars,
                   use_redis, fireworks_api_key, redis_up, endpoint_up, probe,
                   rate_limiter, cache_impl, gret>>

(***************************************************************************)
(* The request handlers (main.py)                                          *)
(***************************************************************************)
\* summarize_post, build_context, generate_replies: the endpoint name each
\* gives to is_allowed and the name in its failure message
Handlers == {"summarize", "context", "replies"}
FailureNoun(h) == IF h = "summarize" THEN "summary" ELSE h

client_ip == "127.0.0.1"

\* Lengths of the normalized request text
TextLens == {MinLength - 1, MinLength}

\* normalizer.is_valid_text, of a text by its normalized length
IsValidText(text_len) == text_len >= MinLength

\* "{:.0f}" of a value >= 0: the nearest integer, ties to even
FormatF0(r) ==
    LET q == r[1] \div r[2]
        twice == 2 * (r[1] % r[2])
    IN  IF twice < r[2] THEN q
        ELSE IF twice > r[2] THEN q + 1
        ELSE IF q % 2 = 0 THEN q ELSE q + 1

\* http_exception_handler: the response for a raised HTTPException
HttpError(status_code, detail) == [status |-> status_code, error |-> detail]

\* A handler from its entry to its first suspension or its response, given
\* what is_allowed returned: lines 90-121, 163-190, 230-259.
HandlerEntryIgnoringLimit(h, text_len, allowed, retry_after) ==
    IF ~IsValidText(text_len)
    THEN [handler |-> h, allowed |-> allowed, retry_after |-> retry_after,
          pc |-> "done",
          calls |-> <<"rate_limiter.is_allowed", "normalizer.normalize",
                      "normalizer.is_valid_text">>,
          response |-> HttpError(400, <<"Invalid or too short text for processing">>)]
    ELSE [handler |-> h, allowed |-> allowed, retry_after |-> retry_after,
          pc |-> "generate",
          calls |-> <<"rate_limiter.is_allowed", "normalizer.normalize",
                      "normalizer.is_valid_text", "prompt_builder.build",
                      "llm_client.generate">>,
          response |-> HttpError(0, <<>>)]

HandlerEntry(h, text_len, allowed, retry_after) ==
    IF ~allowed
    THEN [handler |-> h, allowed |-> allowed, retry_after |-> retry_after,
          pc |-> "done",
          calls |-> <<"rate_limiter.is_allowed">>,
          response |-> HttpError(429, <<"Rate limit exceeded. Try again in ",
                                        FormatF0(retry_after), " seconds">>)]
    ELSE IF ~IsValidText(text_len)
    THEN [handler |-> h, allowed |-> allowed, retry_after |-> retry_after,
          pc |-> "done",
          calls |-> <<"rate_limiter.is_allowed", "normalizer.normalize",
                      "normalizer.is_valid_text">>,
          response |-> HttpError(400, <<"Invalid or too short text for processing">>)]
    ELSE [handler |-> h, allowed |-> allowed, retry_after |-> retry_after,
          pc |-> "generate",
          calls |-> <<"rate_limiter.is_allowed", "normalizer.normalize",
                      "normalizer.is_valid_text", "prompt_builder.build",
                      "llm_client.generate">>,
          response |-> HttpError(0, <<>>)]

\* A handler after llm_client.generate returned llm_result: lines 123-144.
HandlerAfterGenerate(rq, llm_result) ==
    IF ~llm_result.success
    THEN [rq EXCEPT !.pc = "done",
                    !.response = HttpError(500, <<"Failed to generate ",
                                                  FailureNoun(rq.handler)>>)]
    ELSE [rq EXCEPT !.pc = "done",
                    !.response = [status |-> 200, error |-> <<>>]]

\* A handler after llm_client.generate raised: the except Exception clause.
HandlerAfterRaise(rq) ==
    [rq EXCEPT !.pc = "done",
               !.response = HttpError(500, <<"Internal server error">>)]

\* seq without its i-th element
Without(seq, i) == SubSeq(seq, 1, i - 1) \o SubSeq(seq, i + 1, Len(seq))

\* A request arrives and its handler runs up to its first suspension or, when
\* it answers without suspending, to its response.
HandleStepValidatingFirst(h, text_len) ==
    /\ received < MaxRequests
    /\ received' = received + 1
    /\ IF ~IsValidText(text_len)
       THEN /\ answered' = [handler |-> h, allowed |-> TRUE,
                            retry_after |-> RInt(0), pc |-> "done",
                            calls |-> <<"normalizer.normalize",
                                        "normalizer.is_valid_text">>,
                            response |-> HttpError(400,
                                <<"Invalid or too short text for processing">>)]
            /\ UNCHANGED <<inflight, limiterVars>>
       ELSE /\ IsAllowedStep(client_ip, h, 1)
            /\ LET frame == HandlerEntry(h, text_len, lret'.allowed,
                                         lret'.retry_after)
               IN  IF frame.pc = "done"
                   THEN answered' = frame /\ UNCHANGED inflight
                   ELSE inflight' = Append(inflight, frame) /\ UNCHANGED answered

HandleStep(h, text_len) ==
    /\ received < MaxRequests
    /\ received' = received + 1
    /\ IsAllowedStep(client_ip, h, 1)
    /\ LET frame == HandlerEntry(h, text_len, lret'.allowed, lret'.retry_after)
       IN  IF frame.pc = "done"
           THEN answered' = frame /\ UNCHANGED inflight
           ELSE inflight' = Append(inflight, frame) /\ UNCHANGED answered

Handle(h, text_len) ==
    /\ HandleStep(h, text_len)
    /\ UNCHANGED <<rate_limit_window, timed, tasks, now, bucketVars, cacheVars, keyVars, llm_client,
                   deployVars>>

\* The same for a request sent from the address sender, which the handler
\* is not given; the caller notes the sender, the clock reading, the bucket
\* charged and the result.
HandleFrom(sender, h, text_len) ==
    /\ HandleStep(h, text_len)
    /\ timed' = Append(timed,
            [client_id |-> sender, endpoint |-> h, key |-> lret'.key,
             tokens |-> 1, at |-> now, allowed |-> lret'.allowed,
             retry_after |-> lret'.retry_after])
    /\ UNCHANGED <<rate_limit_window, tasks, now, bucketVars, cacheVars, keyVars,
                   llm_client, deployVars>>

\* llm_client.generate returns to the i-th suspended handler, which answers;
\* both clients return success=True.
GenerateReturns(i) ==
    /\ answered' = HandlerAfterGenerate(inflight[i],
                        [text |-> "generated", success |-> TRUE])
    /\ inflight' = Without(inflight, i)
    /\ UNCHANGED <<rate_limit_window, timed, tasks, now, bucketVars, limiterVars, cacheVars, keyVars,
                   llm_client, received, deployVars>>

\* DobbyClient.generate raises to the i-th suspended handler, which answers:
\* a status other than 200, a timeout, or any other error.
GenerateRaises(i) ==
    /\ llm_client = "DobbyClient"
    /\ answered' = HandlerAfterRaise(inflight[i])
    /\ inflight' = Without(inflight, i)
    /\ UNCHANGED <<rate_limit_window, timed, tasks, now, bucketVars, limiterVars, cacheVars, keyVars,
                   llm_client, received, deployVars>>

\* RedisRateLimiter.init_redis / RedisCache.init_redis: whether the constructor
\* returns (it raises when redis cannot be imported, the URL is bad or the
\* ping fails, all of which store_up = FALSE stands for)
InitRedis(store_up) == store_up

\* create_rate_limiter
CreateRateLimiterNoFallback(redis, store_up) ==
    IF redis THEN "RedisRateLimiter" ELSE "RateLimiter"

CreateRateLimiter(redis, store_up) ==
    IF redis /\ InitRedis(store_up) THEN "RedisRateLimiter" ELSE "RateLimiter"

\* create_cache_manager
CreateCacheManagerNoFallback(redis, store_up) ==
    IF redis THEN "RedisCache" ELSE "SQLiteCache"

CreateCacheManager(redis, store_up) ==
    IF redis /\ InitRedis(store_up) THEN "RedisCache" ELSE "SQLiteCache"

\* llm_client.generate of the client class cls while the handler that called
\* it is suspended: DobbyClient has posted its one request, LocalMockClient
\* sleeps.
GeneratePending(cls, key_len) ==
    [posts |-> IF cls = "DobbyClient" /\ DobbyIsAvailable(key_len) THEN 1 ELSE 0,
     outcome |-> "pending", raised |-> FALSE, result |-> None,
     session_open |-> (cls = "DobbyClient")]

\* generate of a handler that answered without calling it
NoGenerate ==
    [posts |-> 0, outcome |-> "not called", raised |-> FALSE, result |-> None,
     session_open |-> FALSE]

\* A request arrives at the process as deployed: its handler asks whichever
\* limiter create_rate_limiter returned, the check meeting the given fault of
\* the Redis server, and runs up to its first suspension or its response.
HandleRequest(h, text_len, fault) ==
    /\ received < MaxRequests
    /\ received' = received + 1
    /\ DeployedIsAllowedStep(client_ip, h, fault)
    /\ LET entry == HandlerEntry(h, text_len, lret'.allowed, lret'.retry_after)
       IN  IF entry.pc = "done"
           THEN /\ answered' = entry @@ [fault |-> fault, gen |-> NoGenerate]
                /\ UNCHANGED inflight
           ELSE /\ inflight' = Append(inflight,
                        entry @@ [fault |-> fault,
                                  gen |-> GeneratePending(llm_client,
                                                          fireworks_api_key)])
                /\ UNCHANGED answered
    /\ UNCHANGED <<rate_limit_window, timed, tasks, now, bucketVars, cacheVars, keyVars, llm_client,
                   use_redis, fireworks_api_key, redis_up, endpoint_up, probe,
                   rate_limiter, cache_impl, gret>>

\* llm_client.generate ends for the i-th suspended handler, returning or
\* raising, and the handler answers.
GenerateEnds(i, outcome) ==
    LET g == Generate(llm_client, fireworks_api_key, outcome)
        frame == [inflight[i] EXCEPT !.gen = g]
    IN  /\ answered' = IF g.raised
                       THEN HandlerAfterRaise(frame)
                       ELSE HandlerAfterGenerate(frame, g.result[1])
        /\ inflight' = Without(inflight, i)
        /\ UNCHANGED <<rate_limit_window, timed, tasks, now, bucketVars, limiterVars, cacheVars, keyVars,
                       llm_client, received, deployVars>>

(***************************************************************************)
(* The handlers as coroutines of one event loop (main.py, ratelimit.py)    *)
(***************************************************************************)
\* Where a handler coroutine gives control back to the event loop: its one
\* await, of llm_client.generate.  RateLimiter.is_allowed, TokenBucket.consume
\* and get_retry_after are plain functions without an await, and the handler
\* calls is_allowed on the loop's thread.
SuspensionPointsInConsume == {"subtract", "generate"}

SuspensionPoints == {"generate"}

\* A handler coroutine that has not run yet
NewTask(h, text_len) ==
    [handler |-> h, text_len |-> text_len, pc |-> "is_allowed", key |-> "",
     missing |-> FALSE, created |-> FALSE, created_at |-> -1, enough |-> FALSE,
     allowed |-> FALSE, retry_after |-> RInt(0),
     calls |-> <<>>, response |-> HttpError(0, <<>>)]

\* One stretch of statements of a handler coroutine at clock reading t, on
\* the limiter S.buckets, S.last_cleanup with the coroutine's frame S.f;
\* outcome tells how a generate call that is resumed ends.
TaskStep(S, t, outcome) ==
    LET f == S.f
        bs == S.buckets
    IN  IF f.pc = "is_allowed"
        \* ratelimit.py 91-96: the sweep, the key, the membership test
        THEN LET swept == CleanupOldBuckets(bs, S.last_cleanup, t)
                 bucket_key == GetBucketKey(client_ip, f.handler)
             IN  [buckets |-> swept[1], last_cleanup |-> swept[2],
                  f |-> [f EXCEPT !.key = bucket_key,
                                  !.missing = bucket_key \notin DOMAIN swept[1],
                                  !.pc = "create"]]
        ELSE IF f.pc = "create"
        \* ratelimit.py 97-100: the assignment of a new bucket to the key
        THEN IF f.missing
             THEN [S EXCEPT
                     !.buckets = [k \in DOMAIN bs \cup {f.key} |->
                                     IF k = f.key
                                     THEN TokenBucketInit(RateLimitRequests,
                                              Rat(RateLimitRequests, rate_limit_window), t)
                                     ELSE bs[k]],
                     !.f = [f EXCEPT !.created = TRUE, !.created_at = t,
                                     !.pc = "refill"]]
             ELSE [S EXCEPT !.f = [f EXCEPT !.pc = "refill"]]
        ELSE IF f.pc = "refill"
        \* ratelimit.py 102, 26-35: the refill and the test of the balance
        THEN LET r == Refill(bs[f.key], t)
                 enough == RLeq(RInt(1), r.tokens)
             IN  [S EXCEPT !.buckets = [bs EXCEPT ![f.key] = r],
                           !.f = [f EXCEPT !.enough = enough,
                                           !.pc = IF enough THEN "subtract"
                                                  ELSE "get_retry_after"]]
        ELSE IF f.pc = "subtract"
        \* ratelimit.py 36-37, 106: self.tokens -= tokens
        THEN LET left == RSub(bs[f.key].tokens, RInt(1))
             IN  [S EXCEPT !.buckets = [bs EXCEPT ![f.key].tokens = left],
                           !.f = [f EXCEPT !.allowed = TRUE, !.pc = "entry"]]
        ELSE IF f.pc = "get_retry_after"
        \* ratelimit.py 109-110
        THEN [S EXCEPT !.f = [f EXCEPT !.allowed = FALSE,
                                       !.retry_after = GetRetryAfter(bs[f.key]),
                                       !.pc = "entry"]]
        ELSE IF f.pc = "entry"
        \* main.py 93-117: the rest of the handler up to its await
        THEN LET e == HandlerEntry(f.handler, f.text_len, f.allowed, f.retry_after)
             IN  [S EXCEPT !.f = [f EXCEPT !.pc = e.pc, !.calls = e.calls,
                                           !.response = e.response]]
        \* main.py 117-144: generate ends and the handler answers
        ELSE LET g == Generate(llm_client, fireworks_api_key, outcome)
                 a == IF g.raised THEN HandlerAfterRaise(f)
                      ELSE HandlerAfterGenerate(f, g.result[1])
             IN  [S EXCEPT !.f = a]

\* The coroutine runs on from where it is until it awaits or has answered.
RECURSIVE RunOn(_, _, _)
RunOn(S, t, outcome) ==
    IF S.f.pc \in SuspensionPoints \cup {"done"}
    THEN S
    ELSE RunOn(TaskStep(S, t, outcome), t, outcome)

\* The event loop gives the coroutine control: it runs at least one stretch.
RunTask(bs, lc, f, t, outcome) ==
    RunOn(TaskStep([buckets |-> bs, last_cleanup |-> lc, f |-> f], t, outcome),
          t, outcome)

\* A request arrives: the event loop starts the coroutine of its handler,
\* which runs up to its first await or to its response.
TaskArrives(h, text_len) ==
    LET S == RunTask(buckets, last_cleanup, NewTask(h, text_len), now, "none")
    IN  /\ Len(tasks) < MaxRequests
        /\ tasks' = Append(tasks, S.f)
        /\ buckets' = S.buckets
        /\ last_cleanup' = S.last_cleanup
        /\ UNCHANGED <<rate_limit_window, timed, now, bucketVars, lret, streak, cacheVars, keyVars,
                       handlerVars, deployVars>>

\* The event loop resumes the i-th coroutine at the await it is suspended in.
TaskResumes(i, outcome) ==
    LET S == RunTask(buckets, last_cleanup, tasks[i], now, outcome)
    IN  /\ tasks[i].pc # "done"
        /\ tasks' = [tasks EXCEPT ![i] = S.f]
        /\ buckets' = S.buckets
        /\ last_cleanup' = S.last_cleanup
        /\ UNCHANGED <<rate_limit_window, timed, now, bucketVars, lret, streak, cacheVars, keyVars,
                       handlerVars, deployVars>>

\* No handler has answered yet.
NoAnswer ==
    [handler |-> "", allowed |-> TRUE, retry_after |-> RInt(0), pc |-> "none",
     calls |-> <<>>, response |-> HttpError(0, <<>>)]

\* The process after the module-level instances have been constructed, with
\* settings.fireworks_api_key of length key_len, settings.use_redis = redis,
\* settings.rate_limit_window = window, and the Redis server and the
\* Fireworks endpoint answering or not.
InitSettings(key_len, redis, store_up, ep_up, window) ==
    /\ now = 0
    /\ bucket = TokenBucketInit(RateLimitRequests,
                                Rat(RateLimitRequests, RateLimitWindow), 0)
    /\ bret = [op |-> "init"]
    /\ scen = 0
    /\ t0 = 0
    /\ buckets = <<>>
    /\ last_cleanup = 0
    /\ lret = [key |-> "", tokens |-> 0, allowed |-> TRUE, retry_after |-> RInt(0)]
    /\ streak = <<>>
    /\ rows = <<>>
    /\ cret = NoCall
    /\ lastSetOf = <<>>
    /\ kprev = NoCall
    /\ kcur = NoCall
    /\ llm_client = CreateClient(key_len)
    /\ received = 0
    /\ inflight = <<>>
    /\ answered = NoAnswer
    /\ use_redis = redis
    /\ fireworks_api_key = key_len
    /\ redis_up = store_up
    /\ endpoint_up = ep_up
    /\ probe = store_up
    /\ rate_limiter = CreateRateLimiter(redis, store_up)
    /\ cache_impl = CreateCacheManager(redis, store_up)
    /\ zsets = <<>>
    /\ gret = NoCall
    /\ tasks = <<>>
    /\ rate_limit_window = window
    /\ timed = <<>>

\* The same with settings.rate_limit_window as configured for the model.
InitSystem(key_len, redis, store_up, ep_up) ==
    InitSettings(key_len, redis, store_up, ep_up, RateLimitWindow)

\* The process started with settings.use_redis at its default, False.
InitWith(key_len) == InitSystem(key_len, FALSE, FALSE, TRUE)

\* The process after start-up, whatever key is configured.
Init == \E n \in ApiKeyLens : InitWith(n)

\* The process after start-up with the default settings: no key.
InitNoKey == InitWith(0)

NextBucket ==
    \/ Tick
    \/ \E c \in 1..MaxCapacity, r \in Rates : BucketNew(c, r)
    \/ \E n \in 1..MaxCost : BucketConsume(n)
    \/ BucketGetRetryAfter

SpecBucket == InitNoKey /\ [][NextBucket]_vars

(***************************************************************************)
(* Claims about TokenBucket, checked under SpecBucket                      *)
(***************************************************************************)
\* C3: after any sequence of consume(n) calls, n >= 1, at non-decreasing
\* times, the balance of a TokenBucket satisfies 0 <= tokens <= capacity.
C3_TokensWithinBounds ==
    /\ RLeq(RInt(0), bucket.tokens)
    /\ RLeq(bucket.tokens, RInt(bucket.capacity))

\* A consume after time has passed was served from a bucket refilled to its
\* capacity.
C3_Witness ==
    /\ bret.op = "consume"
    /\ bucket.last_refill > t0
    /\ bucket.tokens = RInt(bucket.capacity - bret.tokens)
    /\ bret.ok

\* C4: of the calls on a fresh bucket of capacity C and refill rate R, the
\* first C consume(1) calls with no time passing succeed and the (C+1)th
\* fails; 1/R seconds later one more consume(1) succeeds and the next fails.
C4_BurstThenOne ==
    (bret.op = "consume" /\ scen >= 1) =>
        (bret.ok <=> (scen <= bucket.capacity \/ scen = bucket.capacity + 2))

\* The whole scenario has been played: the last call was the denied second
\* call after the wait.
C4_Witness ==
    /\ bret.op = "consume"
    /\ scen = bucket.capacity + 3
    /\ bucket.capacity >= 2

\* C6: get_retry_after() returns 0 when tokens >= 1 and otherwise the r with
\* r * refill_rate = 1 - tokens.
C6_RetryAfterFormula ==
    bret.op = "get_retry_after" =>
        IF RLeq(RInt(1), bucket.tokens)
        THEN bret.value = RInt(0)
        ELSE RAdd(RMul(bret.value, bucket.refill_rate), bucket.tokens) = RInt(1)

\* get_retry_after() was asked of a bucket holding a fraction of a token.
C6_Witness ==
    /\ bret.op = "get_retry_after"
    /\ RLess(RInt(0), bucket.tokens)
    /\ RLess(bucket.tokens, RInt(1))
    /\ RLess(RInt(0), bret.value)

\* C24: a denied consume(n) subtracts nothing but stores the refill: after
\* it tokens = min(capacity, old tokens + elapsed * refill_rate), which is
\* less than n, and last_refill is the clock reading of the call, as after
\* an allowed call, which leaves n tokens less than that.
C24_DeniedConsumeFrame ==
    [][(now' = now /\ bret'.op = "consume" /\ <<bucket, bret>>' # <<bucket, bret>>) =>
          LET elapsed == RInt(now - bucket.last_refill)
              refilled == RMin(RInt(bucket.capacity),
                               RAdd(bucket.tokens, RMul(elapsed, bucket.refill_rate)))
          IN  /\ bucket'.last_refill = now
              /\ bucket'.capacity = bucket.capacity
              /\ bucket'.refill_rate = bucket.refill_rate
              /\ ~bret'.ok =>
                     /\ bucket'.tokens = refilled
                     /\ RLess(refilled, RInt(bret'.tokens))
              /\ bret'.ok =>
                     bucket'.tokens = RSub(refilled, RInt(bret'.tokens))]_vars

\* A consume was denied after time had passed: the balance it left is the
\* refilled one, above 0, and last_refill is the time of the call.
C24_Witness ==
    /\ bret.op = "consume"
    /\ ~bret.ok
    /\ bucket.last_refill = now
    /\ now > t0
    /\ RLess(RInt(0), bucket.tokens)
    /\ RLess(bucket.tokens, RInt(bucket.capacity))

NextLimiter ==
    \/ Tick
    \/ Jump
    \/ \E c \in ClientIds, e \in Endpoints, n \in 1..MaxCost :
          LimiterIsAllowed(c, e, n)

SpecLimiter == InitNoKey /\ [][NextLimiter]_vars

\* C5: for a key with no bucket, is_allowed creates a full bucket of capacity
\* rate_limit_requests refilling at rate_limit_requests / rate_limit_window:
\* the first rate_limit_requests unit-cost calls in immediate succession each
\* return (True, 0.0) and the next returns (False, window / requests).
C5_FreshKeyBurst ==
    \A k \in DOMAIN streak :
        (lret.key = k /\ lret.tokens = 1 /\ streak[k] >= 1) =>
            /\ buckets[k].capacity = RateLimitRequests
            /\ RMul(buckets[k].refill_rate, RInt(RateLimitWindow))
                   = RInt(RateLimitRequests)
            /\ IF streak[k] <= RateLimitRequests
               THEN lret.allowed /\ lret.retry_after = RInt(0)
               ELSE /\ ~lret.allowed
                    /\ lret.retry_after = Rat(RateLimitWindow, RateLimitRequests)

\* The call after the burst has been denied for a key.
C5_Witness ==
    \E k \in DOMAIN streak :
        /\ lret.key = k
        /\ streak[k] = RateLimitRequests + 1
        /\ ~lret.allowed

(***************************************************************************)
(* The sweep of idle buckets                                               *)
(***************************************************************************)
\* The client of the calls made around the moments a sweep falls due
SweepClientIds == {"c1"}

NextSweep ==
    \/ Tick
    \/ \E t \in SweepPoints : SleepUntil(t)
    \/ \E c \in SweepClientIds, e \in Endpoints : LimiterIsAllowed(c, e, 1)

SpecSweep == InitNoKey /\ [][NextSweep]_vars

\* C28: of the sweeps executed by the is_allowed calls made since the limiter
\* was constructed, at clock reading 0, none is executed before
\* cleanup_interval = 300 seconds have passed, and each is executed at least
\* 300 seconds after the one before it.
C28_SweepThrottled ==
    LET sweeps == SweepsSoFar
    IN  /\ \A i \in 1..Len(sweeps) : sweeps[i] >= CleanupInterval
        /\ \A i \in 1..(Len(sweeps) - 1) : sweeps[i + 1] - sweeps[i] >= CleanupInterval
        /\ sweeps # <<>> => last_cleanup = sweeps[Len(sweeps)]

\* Two sweeps have been executed, exactly 300 seconds apart, and a later
\* call executed none.
C28_Witness ==
    /\ lret.key # ""
    /\ Len(lret.sweeps) = 2
    /\ lret.sweeps[2] - lret.sweeps[1] = CleanupInterval
    /\ now > lret.sweeps[2]
    /\ ~lret.swept

\* The clients of the calls made before and after an hour has passed
IdleClientIds == {"c1", "c2"}

NextIdle ==
    \/ Tick
    \/ \E t \in IdlePoints : SleepUntil(t)
    \/ \E c \in IdleClientIds, e \in Endpoints : LimiterIsAllowed(c, e, 1)

SpecIdle == InitNoKey /\ [][NextIdle]_vars

\* C29: an is_allowed call executes its sweep when one is due, before it
\* looks its bucket up: the sweep removes the buckets last used more than
\* 3600 seconds ago and no other, so that a bucket used by an is_allowed
\* call, allowed or denied, within the last hour stays as it is; the call
\* then finds no bucket for its key if the sweep removed it, and is served
\* from a new, full one.  A call that executes no sweep removes nothing.
C29_SweepRemovesIdleOnly ==
    [][lret' # lret =>
          LET key == lret'.key
              idle == {k \in DOMAIN buckets : now - buckets[k].last_refill > IdleSeconds}
              gone == IF lret'.swept THEN idle ELSE {}
              full == TokenBucketInit(RateLimitRequests,
                          Rat(RateLimitRequests, RateLimitWindow), now)
          IN  /\ lret'.swept <=> now - last_cleanup >= CleanupInterval
              /\ DOMAIN buckets' = (DOMAIN buckets \ gone) \cup {key}
              /\ \A k \in DOMAIN buckets' \ {key} : buckets'[k] = buckets[k]
              /\ buckets'[key] =
                     Consume(IF key \in DOMAIN buckets \ gone THEN buckets[key] ELSE full,
                             lret'.tokens, now).bucket
              /\ key \in gone => lret'.allowed]_vars

\* A sweep removed the bucket of the caller, last used more than 3600
\* seconds before, and kept the bucket of another key used exactly 3600
\* seconds before; the caller was served from a new bucket.
C29_Witness ==
    /\ lret.key # ""
    /\ lret.swept
    /\ lret.removed = {lret.key}
    /\ lret.allowed
    /\ buckets[lret.key].tokens = RInt(RateLimitRequests - 1)
    /\ \E k \in DOMAIN buckets : buckets[k].last_refill = now - IdleSeconds

(***************************************************************************)
(* The cache: CacheManager over SQLiteCache                                *)
(***************************************************************************)
NextCache ==
    \/ Tick
    \/ \E x \in CacheTexts, m \in CacheModes, p \in CachePersonas :
          \/ ManagerGet(x, m, p)
          \/ ManagerDelete(x, m, p)
          \/ \E r \in Results, ttl \in TtlArgs : ManagerSet(x, m, p, r, ttl)
    \/ ManagerClear
    \/ ManagerCleanupExpired

SpecCache == InitNoKey /\ [][NextCache]_vars

\* C7: get returns an entry only while now < expires_at, whatever set, get,
\* delete, clear and cleanup_expired calls came before, and also when the
\* row is still stored.
C7_NoExpiredHit ==
    (cret.op = "get" /\ cret.value # None) =>
        /\ cret.key \in DOMAIN rows
        /\ cret.at < rows[cret.key].expires_at

\* A get missed although the row of its key was still stored, expired.
C7_Witness ==
    /\ cret.op = "get"
    /\ cret.value = None
    /\ cret.key \in DOMAIN rows
    /\ rows[cret.key].expires_at <= cret.at

C8_WitnessHit ==
    /\ cret.op = "get"
    /\ cret.key \in DOMAIN lastSetOf
    /\ lastSetOf[cret.key].ttl = Some(1)
    /\ cret.at = lastSetOf[cret.key].at
    /\ cret.value # None

\* C9: a set with ttl=0 stores an entry that is already expired: an immediate
\* get of the same (text, mode, persona) returns a miss.
C9_ZeroTtlExpired ==
    (/\ cret.op = "get"
     /\ cret.key \in DOMAIN lastSetOf
     /\ lastSetOf[cret.key].ttl = Some(0)
     /\ lastSetOf[cret.key].at = cret.at) => cret.value = None

\* The keys of the cache calls
CacheKeys == {GenerateKey(x, m, p) : x \in CacheTexts, m \in CacheModes,
                                     p \in CachePersonas}

\* C30: cleanup_expired deletes the rows with expires_at <= now, all of them
\* and no other, and returns how many they were; the rows it leaves are
\* unchanged, and a get of any key returns after it, now and at any later
\* time, what it would have returned without it.  A get changes no row.  A
\* row disappears only in a cleanup_expired that finds it expired, a delete
\* of its key or a clear, and changes only in a set of its key.
C30_CleanupExact ==
    [][now' = now =>
          /\ (cret'.op = "cleanup_expired" /\ cret'.at = now) =>
                LET expired == {k \in DOMAIN rows : rows[k].expires_at <= now}
                IN  /\ DOMAIN rows' = DOMAIN rows \ expired
                    /\ \A k \in DOMAIN rows' : rows'[k] = rows[k]
                    /\ cret'.value = Cardinality(expired)
                    /\ \A k \in CacheKeys, t \in now..(now + MaxTime) :
                          SQLiteGet(rows', k, t) = SQLiteGet(rows, k, t)
          /\ cret'.op = "get" => rows' = rows
          /\ \A k \in DOMAIN rows :
                /\ k \notin DOMAIN rows' =>
                      \/ cret'.op = "cleanup_expired" /\ rows[k].expires_at <= now
                      \/ cret'.op = "delete" /\ cret'.key = k
                      \/ cret'.op = "clear"
                /\ (k \in DOMAIN rows' /\ rows'[k] # rows[k]) =>
                      (cret'.op = "set" /\ cret'.key = k)]_vars

\* A cleanup_expired deleted one row, at the very second it expired, and
\* left another row.
C30_Witness ==
    /\ cret.op = "cleanup_expired"
    /\ cret.value = 1
    /\ rows # <<>>
    /\ \E k \in DOMAIN lastSetOf :
          /\ k \notin DOMAIN rows
          /\ lastSetOf[k].ttl = Some(1)
          /\ lastSetOf[k].at + 1 = cret.at

(***************************************************************************)
(* generate_key as a function of its arguments                             *)
(***************************************************************************)
NextKey ==
    \/ Tick
    \/ \E x \in KeyTexts, m \in KeyModes, p \in KeyPersonas :
          GenerateKeyCall(x, m, p)

SpecKey == InitNoKey /\ [][NextKey]_vars

\* C10: two generate_key calls with the same mode and persona and with texts
\* that are equal after trimming surrounding whitespace and lowercasing
\* return the same key, whenever they are made.
C10_SameKeyForNormalizedEqual ==
    (/\ kprev.op = "generate_key"
     /\ kcur.op = "generate_key"
     /\ kprev.mode = kcur.mode
     /\ kprev.persona = kcur.persona
     /\ Lower(Strip(kprev.text)) = Lower(Strip(kcur.text))) =>
        kprev.key = kcur.key

\* Two calls at different times, with texts that differ in case and in
\* surrounding whitespace, returned one key.
C10_Witness ==
    /\ kprev.op = "generate_key"
    /\ kcur.op = "generate_key"
    /\ kprev.text = <<" ", "A">>
    /\ kcur.text = <<"a">>
    /\ kprev.at < kcur.at
    /\ kprev.key = kcur.key

(***************************************************************************)
(* generate_key across modes, personas and versions of cache_version       *)
(***************************************************************************)
NextVersion ==
    \/ Tick
    \/ \E x \in SepTexts, m \in KeyModes, p \in SepPersonas :
          \/ GenerateKeyCall(x, m, p)
          \/ \E v \in LaterVersions : GenerateKeyCallUnder(v, x, m, p)

SpecVersion == InitNoKey /\ [][NextVersion]_vars

\* C11: with the hash injective, two generate_key calls of one build with
\* the same text and a different mode or persona return different keys, and
\* two calls of builds with different cache_version values return different
\* keys whatever their arguments, so that a row stored under the key of the
\* one is a miss for a get with the key of the other.
C11_KeySeparatesInputs ==
    (kprev.op = "generate_key" /\ kcur.op = "generate_key") =>
        /\ (/\ kprev.version = kcur.version
            /\ kprev.text = kcur.text
            /\ <<kprev.mode, kprev.persona>> # <<kcur.mode, kcur.persona>>)
               => kprev.key # kcur.key
        /\ kprev.version # kcur.version =>
               /\ kprev.key # kcur.key
               /\ LET cache_data == CacheData(kprev.text, kprev.mode, kprev.persona,
                                              [text |-> "r1", success |-> TRUE],
                                              kprev.at)
                      stored == SQLiteSet(<<>>, kprev.key, cache_data, None, kprev.at)
                  IN  /\ SQLiteGet(stored, kprev.key, kcur.at) # None
                      /\ SQLiteGet(stored, kcur.key, kcur.at) = None

\* The same (text, mode, persona) was keyed by the current build and by a
\* later one, and the keys differ.
C11_Witness ==
    /\ kprev.op = "generate_key"
    /\ kcur.op = "generate_key"
    /\ kprev.version = cache_version
    /\ kcur.version \in LaterVersions
    /\ kprev.text = kcur.text
    /\ kprev.mode = kcur.mode
    /\ kprev.persona = kcur.persona
    /\ kprev.key # kcur.key

(***************************************************************************)
(* The cache over a store that may fail                                    *)
(***************************************************************************)
\* The process started with settings.use_redis set or not and the Redis
\* server up or down.
InitAnyStore == \E redis, store_up \in BOOLEAN : InitSystem(0, redis, store_up, TRUE)

NextFaults ==
    \/ Tick
    \/ StoreDown
    \/ StoreUp
    \/ \E fault \in FaultsNow :
          \/ \E x \in FaultTexts :
                \/ CacheGet(x, Summarize, Human, fault)
                \/ CacheDelete(x, Summarize, Human, fault)
                \/ \E r \in FaultResults, ttl \in FaultTtlArgs :
                      CacheSet(x, Summarize, Human, r, ttl, fault)
          \/ CacheClear(fault)
          \/ CacheCleanupExpired(fault)

SpecFaults == InitAnyStore /\ [][NextFaults]_vars

\* The value a cache call returns when its store has failed
SoftValue(op) ==
    IF op = "get" THEN None ELSE IF op = "cleanup_expired" THEN 0 ELSE FALSE

C27_CacheBoundOnce ==
    [][/\ cache_impl' = cache_impl
       /\ probe' = probe
       /\ (use_redis /\ ~probe) =>
             /\ cache_impl = "SQLiteCache"
             /\ zsets' = zsets
             /\ cret' # cret =>
                   /\ cret'.op \in {"get", "set", "delete", "clear", "cleanup_expired"}
                   /\ cret'.fault \in SQLiteFaults \cup {"none"}
                   /\ \A k \in DOMAIN rows' : "created_at" \in DOMAIN rows'[k]
                   /\ (cret'.op = "set" /\ cret'.fault = "none") =>
                          rows'[cret'.key].created_at = now]_vars

\* After the server, down at construction, had come up and time had passed,
\* a set stored its row in the SQLite table.
C27_Witness ==
    /\ use_redis
    /\ ~probe
    /\ redis_up
    /\ cache_impl = "SQLiteCache"
    /\ cret.op = "set"
    /\ cret.at > 0
    /\ cret.value = TRUE
    /\ cret.key \in DOMAIN rows
    /\ rows[cret.key].created_at = cret.at

(***************************************************************************)
(* The Redis limiter called directly                                       *)
(***************************************************************************)
\* The process started with settings.use_redis set and the server up.
InitRedisUp == InitSystem(0, TRUE, TRUE, TRUE)

NextRedis ==
    \/ \E d \in 1..RateLimitWindow : Wait(d)
    \/ StoreDown
    \/ StoreUp
    \/ \E c \in RedisClientIds, e \in RedisEndpoints, fault \in CheckFaultsNow :
          RedisLimiterIsAllowed(c, e, fault)

SpecRedis == InitRedisUp /\ [][NextRedis]_vars

\* C13: a check of the Redis limiter during which the server is unreachable
\* or fails, at pipe.execute() or at the zrange, returns (True, 0.0) and
\* raises nothing, however many entries the log of the key holds.
C13_FailOpen ==
    ("fault" \in DOMAIN lret /\ lret.fault # "none") =>
        /\ lret.allowed
        /\ lret.retry_after = RInt(0)
        /\ ~lret.raised

\* The server failed at the zrange of a check that found the window full.
C13_Witness ==
    /\ "fault" \in DOMAIN lret
    /\ lret.fault = "zrange"
    /\ Cardinality({m \in lret.before : m > lret.at - RateLimitWindow})
           >= RateLimitRequests
    /\ lret.allowed

\* C14 as stated: with the server reachable, a check is allowed iff fewer
\* than rate_limit_requests entries of the key remain once those older than
\* now - window (timestamp < now - window) are dropped, the current
\* timestamp not counted; a denied check returns oldest + window - now >= 0.
C14_WindowLogOlderThan ==
    ("fault" \in DOMAIN lret /\ lret.fault = "none") =>
        LET remaining == {m \in lret.before : ~(m < lret.at - RateLimitWindow)}
            oldest == SetMin(lret.before \cup {lret.at})
        IN  /\ lret.allowed <=> Cardinality(remaining) < RateLimitRequests
            /\ ~lret.allowed =>
                   /\ RLeq(RInt(0), lret.retry_after)
                   /\ lret.retry_after =
                          RInt(SetMin(remaining \cup {lret.at}) + RateLimitWindow - lret.at)

\* C14 as amended: the entries dropped are those with timestamp
\* <= now - window; a check is allowed iff fewer than rate_limit_requests
\* of the others are in the log before the current timestamp is inserted,
\* and a denied check returns the oldest of them + window - now, which is
\* positive.
C14_WindowLog ==
    ("fault" \in DOMAIN lret /\ lret.fault = "none") =>
        LET remaining == {m \in lret.before : m > lret.at - RateLimitWindow}
        IN  /\ lret.allowed <=> Cardinality(remaining) < RateLimitRequests
            /\ lret.allowed => lret.retry_after = RInt(0)
            /\ ~lret.allowed =>
                   /\ RLess(RInt(0), lret.retry_after)
                   /\ lret.retry_after =
                          RInt(SetMin(remaining) + RateLimitWindow - lret.at)

\* A check was denied after an entry had left the window.
C14_Witness ==
    /\ "fault" \in DOMAIN lret
    /\ lret.fault = "none"
    /\ ~lret.allowed
    /\ \E m \in lret.before : m <= lret.at - RateLimitWindow
    /\ lret.retry_after # RInt(RateLimitWindow)

(***************************************************************************)
(* The process-wide instances under any settings and any environment       *)
(***************************************************************************)
\* The process started with any key, with settings.use_redis set or not, and
\* with the Redis server and the Fireworks endpoint up or down.
InitAny ==
    \E n \in ApiKeyLens, redis, store_up, ep_up \in BOOLEAN :
        /\ store_up => redis
        /\ InitSystem(n, redis, store_up, ep_up)

\* The text of the cache calls made on the process-wide cache_manager
StartupTexts == {<<"a">>}

\* Calls on the three process-wide instances, all at the clock reading of
\* the start.
NextStartup ==
    \/ StoreDown
    \/ StoreUp
    \/ \E c \in RedisClientIds, e \in RedisEndpoints, fault \in LimiterFaultsNow :
          DeployedIsAllowed(c, e, fault)
    \/ \E fault \in FaultsNow, x \in StartupTexts :
          \/ CacheGet(x, Summarize, Human, fault)
          \/ \E r \in FaultResults : CacheSet(x, Summarize, Human, r, None, fault)
    \/ \E outcome \in OutcomesNow : ClientGenerate(outcome)

SpecStartup == InitAny /\ [][NextStartup]_vars

\* Checks of the process-wide rate_limiter as time passes, with
\* settings.use_redis set or not and the Redis server up or down.
NextFallback ==
    \/ Tick
    \/ StoreDown
    \/ StoreUp
    \/ \E c \in RedisClientIds, e \in RedisEndpoints, fault \in LimiterFaultsNow :
          DeployedIsAllowed(c, e, fault)

SpecFallback == InitAnyStore /\ [][NextFallback]_vars

\* C15 as stated: when settings.use_redis is set and the server was down at
\* construction, every later is_allowed call returns (True, 0.0).
C15_AlwaysAllowed ==
    (use_redis /\ ~probe /\ lret.key # "") =>
        /\ lret.allowed
        /\ lret.retry_after = RInt(0)

\* C15 as amended: when settings.use_redis is set and the server was down at
\* construction, the limiter constructed is the in-process RateLimiter, and
\* every later is_allowed call is a call of it that never contacts the
\* server and raises nothing: it changes the buckets and returns what
\* RateLimiter.is_allowed does, (True, 0.0) when the bucket of the key holds
\* a token and (False, retry_after) otherwise.
C15_LocalFallback ==
    [][(use_redis /\ ~probe) =>
          /\ rate_limiter = "RateLimiter"
          /\ zsets' = zsets
          /\ lret' # lret =>
                \E c \in RedisClientIds, e \in RedisEndpoints :
                    LET r == IsAllowed(buckets, last_cleanup, c, e, 1, now)
                    IN  /\ lret'.key = GetBucketKey(c, e)
                        /\ "fault" \notin DOMAIN lret'
                        /\ lret'.allowed = r.allowed
                        /\ lret'.retry_after = r.retry_after
                        /\ buckets' = r.buckets
                        /\ r.allowed <=>
                               (lret'.key \notin DOMAIN buckets
                                \/ RLeq(RInt(1), Refill(buckets[lret'.key], now).tokens))]_vars

\* The in-process limiter denied a call while the server, down at
\* construction, was up again.
C15_Witness ==
    /\ use_redis
    /\ ~probe
    /\ redis_up
    /\ lret.key # ""
    /\ ~lret.allowed
    /\ RLess(RInt(0), lret.retry_after)

\* C26: the limiter is chosen once, while it is constructed, and the answer
\* of the server at that moment is never asked for again.  When
\* settings.use_redis is set and the server did not answer then, every later
\* is_allowed call is served by the in-process RateLimiter from its buckets
\* and none reaches the server, which holds no sorted set of this process,
\* also once the server is up again.
C26_OneTimeProbe ==
    [][/\ rate_limiter' = rate_limiter
       /\ probe' = probe
       /\ (use_redis /\ ~probe) =>
             /\ rate_limiter = "RateLimiter"
             /\ zsets = <<>> /\ zsets' = <<>>
             /\ lret' # lret =>
                   /\ "fault" \notin DOMAIN lret'
                   /\ lret'.key \in DOMAIN buckets'
                   /\ buckets'[lret'.key].last_refill = now]_vars

\* After the server, down at construction, had come up and time had passed,
\* a check was allowed from the bucket of its key.
C26_Witness ==
    /\ use_redis
    /\ ~probe
    /\ redis_up
    /\ now > 0
    /\ lret.key \in DOMAIN buckets
    /\ buckets[lret.key].last_refill = now
    /\ lret.allowed

C17_BackendSelection ==
    /\ llm_client = "DobbyClient" <=>
           /\ fireworks_api_key > 0
           /\ fireworks_api_key > MinKeyLength
           /\ DobbyIsAvailable(fireworks_api_key)
    /\ llm_client # "DobbyClient" => llm_client = "LocalMockClient"
    /\ (llm_client = "LocalMockClient" /\ gret.op = "generate") =>
           /\ ~gret.raised
           /\ gret.result # None
           /\ gret.result[1].success
           /\ gret.posts = 0

\* With no key configured the mock client was selected and its generate
\* returned success=True.
C17_Witness ==
    /\ fireworks_api_key = 0
    /\ llm_client = "LocalMockClient"
    /\ gret.op = "generate"
    /\ gret.result[1].success

\* With a key of 11 characters and the endpoint down, the remote client was
\* selected and its generate raised.
C17_WitnessRemote ==
    /\ fireworks_api_key = MinKeyLength + 1
    /\ ~endpoint_up
    /\ llm_client = "DobbyClient"
    /\ gret.op = "generate"
    /\ gret.raised

\* C19: when the request of DobbyClient.generate gets no answer within its
\* timeout, the request is cancelled, the session is closed, and generate
\* returns to its caller a result with success=False.
C19_TimeoutFailureResult ==
    (gret.op = "generate" /\ gret.outcome = "timeout") =>
        /\ ~gret.session_open
        /\ ~gret.raised
        /\ gret.result # None
        /\ ~gret.result[1].success

(***************************************************************************)
(* The request handlers of the process as deployed                         *)
(***************************************************************************)
\* The handler the requests on the deployed process are sent to
DeployHandlers == {"summarize"}

NextDeploy ==
    \/ Tick
    \/ StoreDown
    \/ StoreUp
    \/ \E h \in DeployHandlers, n \in TextLens, fault \in LimiterFaultsNow :
          HandleRequest(h, n, fault)
    \/ \E i \in 1..Len(inflight), outcome \in OutcomesNow : GenerateEnds(i, outcome)

SpecDeploy == InitAny /\ [][NextDeploy]_vars

\* The handlers that are suspended or answered last
Frames == {inflight[i] : i \in 1..Len(inflight)} \cup
          (IF answered.pc = "done" THEN {answered} ELSE {})

\* The number of times call occurs in calls
Count(calls, call) == Cardinality({j \in 1..Len(calls) : calls[j] = call})

\* C18: a generate call of the remote client posts at most one request; when
\* the answer is not a 200 or does not come in time the call raises with that
\* one request posted, and the handler answers 500 having called generate
\* once.
C18_NoRetry ==
    \A f \in Frames :
        /\ f.gen.posts <= 1
        /\ Count(f.calls, "llm_client.generate") <= 1
        /\ f.gen.outcome \in {"status", "timeout", "error"} =>
               /\ f.gen.raised
               /\ f.gen.posts = 1
               /\ f.pc = "done"
               /\ f.response.status = 500
               /\ Count(f.calls, "llm_client.generate") = 1

\* A handler answered 500 after its one request had timed out.
C18_Witness ==
    /\ answered.pc = "done"
    /\ answered.gen.outcome = "timeout"
    /\ answered.gen.posts = 1
    /\ answered.response.status = 500

\* C20: a handler always answers with a response; it answers 500 only when
\* generation failed, and a failure of the Redis server during its
\* rate-limit check leaves the request admitted, so that it is answered as
\* it would be without the failure.  No handler calls the cache.
C20_OnlyGenerationFailuresVisible ==
    \A f \in Frames :
        /\ f.pc = "done" => f.response.status \in {200, 400, 429, 500}
        /\ f.response.status = 500 =>
               (f.gen.raised \/ (f.gen.result # None /\ ~f.gen.result[1].success))
        /\ f.fault # "none" =>
               /\ f.allowed
               /\ f.response.status # 429
               /\ f.response.status = 200 <=>
                      (f.gen.result # None /\ f.gen.result[1].success)
        /\ \A j \in 1..Len(f.calls) :
               f.calls[j] \notin {"cache_manager.get", "cache_manager.set"}

\* With the Redis server down, a request was admitted by a check that
\* failed, and answered 200.
C20_Witness ==
    /\ answered.pc = "done"
    /\ rate_limiter = "RedisRateLimiter"
    /\ ~redis_up
    /\ answered.fault = "execute"
    /\ answered.response.status = 200

(***************************************************************************)
(* Concurrent requests on the in-process limiter                           *)
(***************************************************************************)
\* The handlers the concurrent requests are sent to: two bucket keys
TaskHandlers == {"summarize", "context"}

NextTasks ==
    \/ Tick
    \/ \E h \in TaskHandlers, n \in TextLens : TaskArrives(h, n)
    \/ \E i \in 1..Len(tasks), outcome \in OutcomesNow : TaskResumes(i, outcome)

SpecTasks == InitNoKey /\ [][NextTasks]_vars

\* The requests on bucket key k that have been admitted, and those whose
\* handler constructed the bucket of k
AdmittedOn(k) == {i \in 1..Len(tasks) : tasks[i].key = k /\ tasks[i].allowed}
CreatorsOf(k) == {i \in 1..Len(tasks) : tasks[i].key = k /\ tasks[i].created}

\* C22: however the handler coroutines interleave at their awaits, the check
\* of each request acts on the limiter in one piece, as is_allowed applied to
\* the limiter at the moment the request arrives, and a coroutine resumed
\* later does not touch the buckets.  So the balance never falls below 0,
\* exactly one bucket is constructed per key, and every admission of a key
\* is paid for: the balance plus the requests admitted is at most the
\* capacity plus what has been refilled since the bucket was constructed.
C22_AtomicPerKey ==
    [][/\ \A i \in 1..Len(tasks') :
             i > Len(tasks) =>
                 LET f == tasks'[i]
                     r == IsAllowed(buckets, last_cleanup, client_ip, f.handler, 1, now)
                 IN  /\ f.pc \in {"generate", "done"}
                     /\ f.allowed = r.allowed
                     /\ f.retry_after = r.retry_after
                     /\ buckets' = r.buckets
       /\ Len(tasks') = Len(tasks) => buckets' = buckets
       /\ \A k \in DOMAIN buckets' :
             /\ RLeq(RInt(0), buckets'[k].tokens)
             /\ Cardinality(CreatorsOf(k)') = 1
             /\ \A c \in CreatorsOf(k)' :
                   RLeq(RAdd(buckets'[k].tokens, RInt(Cardinality(AdmittedOn(k)'))),
                        RAdd(RInt(RateLimitRequests),
                             RMul(RInt(buckets'[k].last_refill - tasks'[c].created_at),
                                  buckets'[k].refill_rate)))]_vars

\* While the first request of a key, which constructed its bucket, was still
\* suspended in generate, a second was admitted and a third denied.
C22_Witness ==
    \E i, j, k \in 1..Len(tasks) :
        /\ i < j /\ j < k
        /\ tasks[i].key = tasks[j].key /\ tasks[j].key = tasks[k].key
        /\ tasks[i].created /\ tasks[i].allowed /\ tasks[i].pc = "generate"
        /\ tasks[j].allowed /\ ~tasks[j].created
        /\ ~tasks[k].allowed /\ tasks[k].response.status = 429

(***************************************************************************)
(* Concurrent checks of several processes on the Redis limiter             *)
(***************************************************************************)
NextRedisChecks ==
    \/ \E d \in 1..RateLimitWindow : Wait(d)
    \/ \E c \in RedisClientIds, e \in RedisEndpoints : CheckExecutes(c, e)
    \/ \E i \in 1..Len(tasks) : CheckZrange(i)

SpecRedisChecks == InitRedisUp /\ [][NextRedisChecks]_vars

\* The checks of key k allowed in the window of RateLimitWindow seconds that
\* ends at t
AllowedWithin(k, t) ==
    {i \in 1..Len(tasks) : /\ tasks[i].key = k
                           /\ tasks[i].allowed
                           /\ t - RateLimitWindow < tasks[i].at
                           /\ tasks[i].at <= t}

\* C23: with the server reachable, every check adds exactly one entry to the
\* log of its key, and of the checks of one key at most rate_limit_requests
\* are allowed within any trailing window of rate_limit_window seconds,
\* however the checks of the processes interleave.
C23_OneEntryPerCheck ==
    /\ \A i \in 1..Len(tasks) : tasks[i].added = 1
    /\ \A i \in 1..Len(tasks) : \A t \in 0..WindowHorizon :
           Cardinality(AllowedWithin(tasks[i].key, t)) <= RateLimitRequests

(***************************************************************************)
(* The mock client called directly                                         *)
(***************************************************************************)
\* The process started with no key, or with one too short to select the
\* remote client.
InitMock == \E n \in {0, MinKeyLength} : InitWith(n)

NextMock ==
    \/ Tick
    \/ \E p \in MockPrompts, temp \in MockTemperatures, m \in MockMaxTokens :
          MockGenerateCall(p, temp, m)
    \/ MockGenerateReturns

\* Time passes, and the event loop resumes a coroutine whose sleep is over.
SpecMock ==
    InitMock /\ [][NextMock]_vars /\ WF_vars(Tick) /\ WF_vars(MockGenerateReturns)

\* C21: the mock client is available in every state; every generate call on
\* it, whatever its prompt, temperature and max_tokens, returns after its
\* sleep, and what it returns is a result with success=True; it never raises.
C21_MockNeverFails ==
    /\ [](llm_client = "LocalMockClient" => MockIsAvailable)
    /\ [](gret.op \in {"sleeping", "generate"} => ~gret.raised)
    /\ [](gret.op = "generate" => (gret.result # None /\ gret.result[1].success))
    /\ (gret.op = "sleeping") ~> (gret.op = "generate")

\* A call whose prompt names no keyword and has no "Tweet:" line, made with
\* a temperature that gives a positive delay, has returned success=True.
C21_Witness ==
    /\ gret.op = "generate"
    /\ gret.prompt = <<"a">>
    /\ gret.temperature = <<2, 1>>
    /\ gret.start_time < now
    /\ gret.result[1].success
    /\ gret.result[1].text = <<"Response to: ", SampleTweetContent>>

(***************************************************************************)
(* The request handlers over the in-process limiter                        *)
(***************************************************************************)
Next ==
    \/ Tick
    \/ \E h \in Handlers, n \in TextLens : Handle(h, n)
    \/ \E i \in 1..Len(inflight) : GenerateReturns(i)
    \/ \E i \in 1..Len(inflight) : GenerateRaises(i)

Spec == Init /\ [][Next]_vars

\* C1: a request that is_allowed denies is answered in the step of the
\* check with status 429 and the retry hint, rounded to whole seconds, in
\* the message; its handler makes no other call and never waits among the
\* suspended handlers, so llm_client.generate is never invoked for it.
C1_DeniedRejectedAtOnce ==
    /\ \A i \in 1..Len(inflight) : inflight[i].allowed
    /\ ~answered.allowed =>
          /\ answered.response.status = 429
          /\ answered.response.error =
                 <<"Rate limit exceeded. Try again in ",
                   FormatF0(answered.retry_after), " seconds">>
          /\ answered.calls = <<"rate_limiter.is_allowed">>

\* A request was denied with a positive hint while an admitted one was
\* still waiting for llm_client.generate.
C1_Witness ==
    /\ ~answered.allowed
    /\ answered.response.status = 429
    /\ FormatF0(answered.retry_after) > 0
    /\ inflight # <<>>

\* C2: the handler of every admitted request asks CacheManager.get first;
\* on a hit it answers without llm_client.generate, on a miss it calls
\* generate and then CacheManager.set before answering.
C2_CacheConsulted ==
    (answered.allowed /\ answered.response.status = 200) =>
        \E a, b \in 1..Len(answered.calls) :
            /\ answered.calls[a] = "cache_manager.get"
            /\ a < b
            /\ answered.calls[b] \in {"llm_client.generate", "cache_manager.set"}

(***************************************************************************)
(* The in-process RateLimiter under the windows it can be configured with  *)
(***************************************************************************)
\* Values of settings.rate_limit_window: the model's, one hour and two hours
Windows == {RateLimitWindow, IdleSeconds, 2 * IdleSeconds}

\* The clock reading at which a bucket used at the start has been idle for
\* just over an hour
HourPoints == {IdleSeconds + 1}

\* The client of the timed calls
TimedClientIds == {"c1"}

\* Number of calls timed: enough for two full bursts of a key and one more
MaxTimed == 2 * RateLimitRequests + 1

\* rate_limiter.is_allowed(client_id, endpoint, tokens), called by a caller
\* that notes the clock reading and the result
TimedIsAllowed(client_id, endpoint, tokens) ==
    /\ Len(timed) < MaxTimed
    /\ IsAllowedStep(client_id, endpoint, tokens)
    /\ LET r == IsAllowed(buckets, last_cleanup, client_id, endpoint, tokens, now)
       IN  timed' = Append(timed,
                [client_id |-> client_id, endpoint |-> endpoint,
                 key |-> GetBucketKey(client_id, endpoint), tokens |-> tokens,
                 at |-> now, allowed |-> r.allowed,
                 retry_after |-> r.retry_after])
    /\ UNCHANGED <<rate_limit_window, tasks, now, bucketVars, cacheVars, keyVars,
                   handlerVars, deployVars>>

InitTimed == \E w \in Windows : InitSettings(0, FALSE, FALSE, TRUE, w)

NextTimed ==
    \/ Tick
    \/ \E t \in HourPoints : SleepUntil(t)
    \/ \E c \in TimedClientIds, e \in Endpoints : TimedIsAllowed(c, e, 1)

SpecTimed == InitTimed /\ [][NextTimed]_vars

\* C31: for every key and every interval of time, the unit-cost calls of the
\* key that is_allowed admits within the interval number at most
\* rate_limit_requests + T * rate_limit_requests / rate_limit_window, T being
\* the length of the interval, whatever sweeps the calls executed.  It is
\* stated of the intervals that begin and end with a timed call.
C31_RateBound ==
    \A i, j \in 1..Len(timed) :
        (i <= j /\ timed[i].key = timed[j].key) =>
            LET admitted == {n \in i..j : /\ timed[n].key = timed[i].key
                                          /\ timed[n].tokens = 1
                                          /\ timed[n].allowed}
                T == timed[j].at - timed[i].at
            IN  RLeq(RInt(Cardinality(admitted)),
                     RAdd(RInt(RateLimitRequests),
                          Rat(T * RateLimitRequests, rate_limit_window)))

\* The same bound for the windows of at most an hour
C31_RateBoundWithinHour ==
    rate_limit_window <= IdleSeconds => C31_RateBound

\* is_allowed of a limiter that never removes a bucket: lines 93-110 without
\* the sweep of line 91
IsAllowedNeverSwept(bs, client_id, endpoint, tokens, t) ==
    LET bucket_key == GetBucketKey(client_id, endpoint)
        withB == WithBucket(bs, bucket_key, t)
        consumed == Consume(withB[bucket_key], tokens, t)
    IN  [buckets |-> [withB EXCEPT ![bucket_key] = consumed.bucket],
         allowed |-> consumed.result,
         retry_after |-> IF consumed.result
                         THEN RInt(0)
                         ELSE GetRetryAfter(consumed.bucket)]

\* What the calls cs return, in order, when made at the same clock readings
\* on a limiter that never removes a bucket and holds the buckets bs
RECURSIVE NeverSweptResults(_, _)
NeverSweptResults(bs, cs) ==
    IF cs = <<>> THEN <<>>
    ELSE LET c == Head(cs)
             r == IsAllowedNeverSwept(bs, c.client_id, c.endpoint, c.tokens, c.at)
         IN  <<[allowed |-> r.allowed, retry_after |-> r.retry_after]>>
                 \o NeverSweptResults(r.buckets, Tail(cs))

\* C35: whatever window is configured, the (allowed, retry_after) results of
\* a sequence of timed is_allowed calls are those the same calls get from a
\* limiter that never removes a bucket.
C35_SweepUnobservable ==
    LET kept == NeverSweptResults(<<>>, timed)
    IN  \A i \in 1..Len(timed) :
            /\ timed[i].allowed = kept[i].allowed
            /\ timed[i].retry_after = kept[i].retry_after

\* The same for the windows of at most an hour
C35_SweepUnobservableWithinHour ==
    rate_limit_window <= IdleSeconds => C35_SweepUnobservable

(***************************************************************************)
(* Retries of a denied call on the in-process RateLimiter                  *)
(***************************************************************************)
\* The calls timed are a burst, the call denied after it and its retry.
NextRetry ==
    \/ Tick
    \/ /\ Len(timed) < RateLimitRequests + 2
       /\ \E c \in TimedClientIds, e \in Endpoints, n \in 1..MaxCost :
             TimedIsAllowed(c, e, n)

SpecRetry == InitNoKey /\ [][NextRetry]_vars

\* The timed calls i < j are a denied call and the next call on its key,
\* which repeats it exactly retry_after seconds later.
RetriesOnTime(i, j) ==
    /\ i < j
    /\ ~timed[i].allowed
    /\ timed[j].key = timed[i].key
    /\ timed[j].tokens = timed[i].tokens
    /\ \A n \in (i + 1)..(j - 1) : timed[n].key # timed[i].key
    /\ RInt(timed[j].at - timed[i].at) = timed[i].retry_after

\* C32: a denied is_allowed call of any cost never returns the hint 0, and
\* the same call made exactly retry_after seconds later, with no other call
\* on the key in between, is allowed.
C32_HintSufficient ==
    /\ \A i \in 1..Len(timed) :
           ~timed[i].allowed => RLess(RInt(0), timed[i].retry_after)
    /\ \A i, j \in 1..Len(timed) : RetriesOnTime(i, j) => timed[j].allowed

\* The above holds of the calls of cost 1.
C32_UnitHintSufficient ==
    /\ \A i \in 1..Len(timed) :
           (~timed[i].allowed /\ timed[i].tokens = 1) =>
               RLess(RInt(0), timed[i].retry_after)
    /\ \A i, j \in 1..Len(timed) :
           (RetriesOnTime(i, j) /\ timed[i].tokens = 1) => timed[j].allowed

\* A denied unit-cost call has been repeated retry_after seconds later, after
\* time has passed, and was allowed.
UnitRetryAllowed ==
    \E i, j \in 1..Len(timed) :
        /\ RetriesOnTime(i, j)
        /\ timed[i].tokens = 1
        /\ timed[j].at > timed[i].at
        /\ timed[j].allowed

\* C33: when a check of the Redis limiter is denied with the hint
\* retry_after and the next check of the key is made exactly retry_after
\* seconds later, the server answering, that check is allowed.
C33_RedisHintSufficient ==
    [][(/\ ~lret.allowed
        /\ lret' # lret
        /\ lret'.key = lret.key
        /\ lret'.fault = "none"
        /\ RInt(lret'.at - lret.at) = lret.retry_after) => lret'.allowed]_vars

(***************************************************************************)
(* The buckets of different (client_id, endpoint) pairs                    *)
(***************************************************************************)
\* Client identifiers and endpoints of which one contains the ":" that
\* _get_bucket_key joins them with; "" stands for endpoint=None
PairClientIds == {"c1", "c1:summarize"}
PairEndpoints == {"", "summarize"}

NextPairs ==
    \/ Tick
    \/ /\ Len(timed) < RateLimitRequests + 2
       /\ \E c \in PairClientIds, e \in PairEndpoints : TimedIsAllowed(c, e, 1)

SpecPairs == InitNoKey /\ [][NextPairs]_vars

\* What the calls cs return, in order, when made at the same clock readings
\* on a RateLimiter holding the buckets bs and last swept at lc
RECURSIVE ResultsOf(_, _, _)
ResultsOf(bs, lc, cs) ==
    IF cs = <<>> THEN <<>>
    ELSE LET c == Head(cs)
             r == IsAllowed(bs, lc, c.client_id, c.endpoint, c.tokens, c.at)
         IN  <<[allowed |-> r.allowed, retry_after |-> r.retry_after]>>
                 \o ResultsOf(r.buckets, r.last_cleanup, Tail(cs))

\* The calls among the first i timed ones that were made for the pair of
\* the i-th
OwnCalls(i) ==
    LET Own(c) == /\ c.client_id = timed[i].client_id
                  /\ c.endpoint = timed[i].endpoint
    IN  SelectSeq(SubSeq(timed, 1, i), Own)

\* C34: no two calls for different (client_id, endpoint) pairs have the same
\* bucket key, and what an is_allowed call returns is what it would return
\* had the calls for the other pairs not been made.
C34_BucketIsolation ==
    /\ \A i, j \in 1..Len(timed) :
           <<timed[i].client_id, timed[i].endpoint>>
               # <<timed[j].client_id, timed[j].endpoint>>
           => timed[i].key # timed[j].key
    /\ \A i \in 1..Len(timed) :
           LET own == ResultsOf(<<>>, 0, OwnCalls(i))
           IN  /\ timed[i].allowed = own[Len(own)].allowed
               /\ timed[i].retry_after = own[Len(own)].retry_after

\* The pairs with different bucket keys do not affect each other.
IsolatedWhenKeysDiffer ==
    \A i \in 1..Len(timed) :
        LET Same(c) == c.key = timed[i].key
            own == ResultsOf(<<>>, 0, SelectSeq(SubSeq(timed, 1, i), Same))
        IN  /\ timed[i].allowed = own[Len(own)].allowed
            /\ timed[i].retry_after = own[Len(own)].retry_after

(***************************************************************************)
(* Requests of several clients                                             *)
(***************************************************************************)
\* The remote addresses requests are sent from
Senders == {"10.0.0.1", "10.0.0.2"}

\* The requests arrive within one second.
NextSenders ==
    \/ \E c \in Senders, h \in Handlers : HandleFrom(c, h, MinLength)
    \/ \E i \in 1..Len(inflight) : GenerateReturns(i)

SpecSenders == InitNoKey /\ [][NextSenders]_vars

\* C36: the bucket a handler charges for a request is determined by the
\* client that sent it: requests of different clients are charged to
\* different buckets, and what the rate limiter answers to a request is what
\* it would answer had the requests of the other clients not been made.
C36_PerClientAdmission ==
    /\ \A i, j \in 1..Len(timed) :
           timed[i].client_id # timed[j].client_id => timed[i].key # timed[j].key
    /\ \A i \in 1..Len(timed) :
           LET own == ResultsOf(<<>>, 0, OwnCalls(i))
           IN  timed[i].allowed = own[Len(own)].allowed

(***************************************************************************)
(* What generate hands to the handlers, checked under SpecDeploy           *)
(***************************************************************************)
\* C37: a value returned by llm_client.generate, of either client, has
\* success = True; a generation that fails raises and returns nothing, and
\* no handler answers with the "Failed to generate ..." response of its
\* branch for a returned result with success = False.
C37_ReturnedMeansSuccess ==
    \A f \in Frames :
        /\ f.gen.result # None =>
               /\ f.gen.result[1].success
               /\ ~f.gen.raised
        /\ f.gen.outcome \in {"status", "timeout", "error", "not configured"} =>
               /\ f.gen.raised
               /\ f.gen.result = None
        /\ f.pc = "done" =>
               f.response # HttpError(500, <<"Failed to generate ",
                                            FailureNoun(f.handler)>>)

\* A generation of the remote client failed with a status other than 200:
\* it raised, and the handler answered through its except clause.
C37_Witness ==
    /\ answered.pc = "done"
    /\ llm_client = "DobbyClient"
    /\ answered.gen.outcome = "status"
    /\ answered.gen.raised
    /\ answered.gen.result = None
    /\ answered.response = HttpError(500, <<"Internal server error">>)

(***************************************************************************)
(* The token of a request that is not served, checked under Spec           *)
(***************************************************************************)
\* The position of call in calls, 0 when it is not there
IndexOf(calls, call) ==
    IF \E j \in 1..Len(calls) : calls[j] = call
    THEN CHOOSE j \in 1..Len(calls) :
             calls[j] = call /\ \A i \in 1..(j - 1) : calls[i] # call
    ELSE 0

\* C38: rate_limiter.is_allowed is the first call of every handler and comes
\* before the text is validated; the handler of a request that is answered
\* 400 has taken one token from its bucket in the step that answers, and the
\* step in which generation ends, with 200 or with 500, leaves every bucket
\* as it is: the token taken at entry is not given back.
C38_CheckFirstTokenKept ==
    [][/\ \A f \in Frames' :
             /\ f.calls[1] = "rate_limiter.is_allowed"
             /\ IndexOf(f.calls, "normalizer.is_valid_text") # 1
       /\ (received' = received + 1 /\ inflight' = inflight
              /\ answered'.response.status = 400) =>
             LET key == GetBucketKey(client_ip, answered'.handler)
                 had == IF key \in DOMAIN buckets
                        THEN Refill(buckets[key], now).tokens
                        ELSE RInt(RateLimitRequests)
             IN  /\ answered'.allowed
                 /\ buckets'[key].tokens = RSub(had, RInt(1))
       /\ (received' = received /\ inflight' # inflight) =>
             /\ answered'.allowed
             /\ answered'.response.status \in {200, 500}
             /\ buckets' = buckets]_vars

\* The one request received so far was answered 400, and its bucket is one
\* token short of full.
C38_Witness ==
    /\ received = 1
    /\ answered.pc = "done"
    /\ answered.response.status = 400
    /\ LET key == GetBucketKey(client_ip, answered.handler)
       IN  /\ key \in DOMAIN buckets
           /\ buckets[key].tokens = RInt(RateLimitRequests - 1)

\* A request was answered 500 while its bucket, which no time has refilled,
\* is short of the tokens of all the requests received.
TokenKeptAfterFailure ==
    /\ received = RateLimitRequests
    /\ now = 0
    /\ answered.pc = "done"
    /\ answered.response.status = 500
    /\ LET key == GetBucketKey(client_ip, answered.handler)
       IN  /\ key \in DOMAIN buckets
           /\ buckets[key].tokens = RInt(0)

====
